---- MODULE Spec2Model ----
(***************************************************************************)
(* A model of asmithaxe/python-ai-lib: the annotation ingestion pipeline   *)
(* (asmithaxe.ai.cv.dataset) and its callable-based predecessor            *)
(* (asmithaxe.ai.dataset, called "legacy" below).                          *)
(*                                                                         *)
(* Every method is modelled as an operator from the object's state and the *)
(* arguments to the state after the call and the value returned; an        *)
(* action applies one method, whole.  Four specifications share the        *)
(* variables:                                                              *)
(*   SpecRegistry  the label registry (LabelCollector) under its methods   *)
(*   SpecCsv       the point-record parser applied to bounded files        *)
(*   SpecCvat      the structured-box parser applied to bounded documents  *)
(*   Spec          the Pipeline controller driving a wired pipeline        *)
(***************************************************************************)
EXTENDS Integers, Sequences, FiniteSets, TLC

VARIABLES
    variant,        \* "cv" (asmithaxe.ai.cv.dataset) or "legacy" (asmithaxe.ai.dataset)
    unique_labels,  \* LabelCollector.unique_labels: label -> id
    registered,     \* history: the labels handed to the registry since it was last empty
    given,          \* history: every <<label, id>> the registry instance ever assigned
    last_call,      \* the last registry method applied: [op, arg, result]
    parser,         \* the annotation file parser: its class and constructor arguments
    annotation_file,            \* the contents of the annotation file: rows or image nodes
    annotated_image_listeners,  \* per image loader or processor, its registered listeners
    pipeline_state_listeners,   \* Pipeline.pipeline_state_listeners
    crop_patch,     \* legacy CroppingImageProcessor: image_patch_height, image_patch_width
    input,          \* a unit handed to one stage directly: [stage, image, ia, oas]
    packager,       \* the TensorFlowRecordDatasetPackager: arguments, image_count, writer
    files,          \* the image files the store packagers saved, in order
    calls           \* history: per parse / start / stop call, [op, log, err]

registryVars == <<unique_labels, registered, given, last_call>>
wiringVars == <<parser, annotation_file, annotated_image_listeners,
                pipeline_state_listeners, crop_patch, input>>
outputVars == <<packager, files>>
vars == <<variant, registryVars, wiringVars, outputVars, calls>>

(***************************************************************************)
(* Values.                                                                 *)
(***************************************************************************)

\* Python's None, and a returned value x, kept apart from every x.
None == <<>>
Some(x) == <<x>>

Range(s) == {s[i] : i \in DOMAIN s}

\* The label vocabulary of the bounded sources.
Labels == {"fish", "coral", "kelp"}

\* The longest history of registrations explored.
MaxRegs == 4
\* The most object annotations in one unit.
MaxBoxes == 2

SeqsUpTo(S, n) == UNION {[1..k -> S] : k \in 0..n}

\* An empty dict.
EmptyDict == <<>>

(***************************************************************************)
(* Label Registry.                                                         *)
(***************************************************************************)

\* LabelCollector.clear (legacy): self.unique_labels = {}
clear(ul) == [self |-> EmptyDict, result |-> None]

\* A registry that numbers a label again each time it is registered: the
\* assignment without its "if label not in self.unique_labels".
register_renumbering(ul, label) ==
    [self |-> [l \in DOMAIN ul \cup {label} |->
                  IF l = label THEN Cardinality(DOMAIN ul) + 1 ELSE ul[l]],
     result |-> None]

\* A registry that numbers from 0: len(self.unique_labels) without the + 1.
register_zero_based(ul, label) ==
    [self |-> IF label \notin DOMAIN ul
              THEN [l \in DOMAIN ul \cup {label} |->
                       IF l = label THEN Cardinality(DOMAIN ul) ELSE ul[l]]
              ELSE ul,
     result |-> None]

\* LabelCollector.register (legacy): a new label gets len(unique_labels) + 1.
register(ul, label) ==
    [self |-> IF label \notin DOMAIN ul
              THEN [l \in DOMAIN ul \cup {label} |->
                       IF l = label THEN Cardinality(DOMAIN ul) + 1 ELSE ul[l]]
              ELSE ul,
     result |-> None]

\* A find that fabricates an id on a miss, as dict.setdefault would.
legacy_find_fabricating(ul, label) ==
    IF label \in DOMAIN ul
    THEN [self |-> ul, result |-> Some(ul[label])]
    ELSE [self |-> register(ul, label).self,
          result |-> Some(Cardinality(DOMAIN ul) + 1)]

\* LabelCollector.find (legacy).
legacy_find(ul, label) ==
    [self |-> ul,
     result |-> IF label \in DOMAIN ul THEN Some(ul[label]) ELSE None]

\* LabelCollector.get_num (legacy).
legacy_get_num(ul) == [self |-> ul, result |-> Some(Cardinality(DOMAIN ul))]

\* A base parse that leaves the collector as it finds it.
legacy_parse_base_keeping(ul, has_collector) == [self |-> ul, result |-> None]

\* AnnotationFileParser.parse (legacy base class): clears the collector it was given.
legacy_parse_base(ul, has_collector) ==
    IF has_collector THEN clear(ul) ELSE [self |-> ul, result |-> None]

\* LabelCollector.on_annotation_available (cv), the body of its loop for one label.
collect_label(ul, label) ==
    IF label \notin DOMAIN ul
    THEN [l \in DOMAIN ul \cup {label} |->
             IF l = label THEN Cardinality(DOMAIN ul) + 1 ELSE ul[l]]
    ELSE ul

RECURSIVE collect_labels(_, _)
\* LabelCollector.on_annotation_available (cv), the loop over the labels of the
\* object annotations.
collect_labels(ul, labels) ==
    IF labels = <<>> THEN ul
    ELSE collect_labels(collect_label(ul, Head(labels)), Tail(labels))

\* LabelCollector.find (cv).
find(ul, label) ==
    [self |-> ul,
     result |-> IF label \in DOMAIN ul THEN Some(ul[label]) ELSE None]

\* LabelCollector.get_num (cv).
get_num(ul) == [self |-> ul, result |-> Some(Cardinality(DOMAIN ul))]

(***************************************************************************)
(* Text, file names, images on disk.                                       *)
(***************************************************************************)

\* A Python str is modelled as the sequence of its characters.
JPG == <<".", "j", "p", "g">>

\* str.endswith
EndsWith(s, suffix) ==
    /\ Len(s) >= Len(suffix)
    /\ SubSeq(s, Len(s) - Len(suffix) + 1, Len(s)) = suffix

RECURSIVE LastComponent(_)
\* The characters after the last "/": re.split("([^/]+$)", filename)[1] and
\* os.path.basename(filename).
LastComponent(filename) ==
    IF filename = <<>> \/ filename[Len(filename)] = "/" THEN <<>>
    ELSE Append(LastComponent(SubSeq(filename, 1, Len(filename) - 1)),
                filename[Len(filename)])

\* os.path.join(path, name)
os_path_join(path, name) ==
    IF name # <<>> /\ name[1] = "/" THEN name
    ELSE IF path = <<>> \/ path[Len(path)] = "/" THEN path \o name
    ELSE path \o <<"/">> \o name

\* The index of the last occurrence of character c in s, 0 when there is none.
LastIndexOf(s, c) ==
    LET at == {i \in DOMAIN s : s[i] = c}
    IN IF at = {} THEN 0 ELSE CHOOSE i \in at : \A j \in at : j <= i

\* os.path.splitext(path): <<root, ext>>, ext starting at the last "." of the
\* last component unless that component has only dots before it.
os_path_splitext(path) ==
    LET sep == LastIndexOf(path, "/")
        dot == LastIndexOf(path, ".")
    IN IF dot > sep + 1 /\ \E i \in (sep + 1)..(dot - 1) : path[i] # "."
       THEN <<SubSeq(path, 1, dot - 1), SubSeq(path, dot, Len(path))>>
       ELSE <<path, <<>>>>

\* str(n) for a count below ten.
str(n) == <<<<"0", "1", "2", "3", "4", "5", "6", "7", "8", "9">>[n + 1]>>

\* The output_path the store packagers are constructed with.
OutputPath == <<"o", "u", "t">>

\* The images build_image_dict found: short filename -> full path.
ImageDict ==
    (<<"a">> \o JPG :> <<"d", "/", "a">> \o JPG) @@
    (<<"b">> \o JPG :> <<"d", "/", "b">> \o JPG) @@
    (<<"e">> \o JPG :> <<"d", "/", "e">> \o JPG) @@
    (<<"f">> \o JPG :> <<"d", "/", "f">> \o JPG)

\* What PIL reports for the image files: Image.open(path).size.
ImageSize ==
    (<<"d", "/", "a">> \o JPG :> [width |-> 4, height |-> 4]) @@
    (<<"d", "/", "b">> \o JPG :> [width |-> 5, height |-> 4]) @@
    (<<"d", "/", "e">> \o JPG :> [width |-> 100, height |-> 100]) @@
    (<<"d", "/", "f">> \o JPG :> [width |-> 100, height |-> 50])

\* A cell of a CSV row that int() reads is <<n>>, the decimal text of n, or <<>>,
\* the empty text, which int() rejects with ValueError.
int(cell) == IF Len(cell) = 1 THEN [result |-> cell[1], err |-> None]
             ELSE [result |-> 0, err |-> Some("ValueError")]

(***************************************************************************)
(* Annotations.                                                            *)
(***************************************************************************)

\* ImageAnnotation.__init__
ImageAnnotation(image_filename, image_width, image_height) ==
    [image_filename |-> image_filename,
     image_format |-> IF EndsWith(image_filename, <<"p", "n", "g">>)
                      THEN "png" ELSE "jpg",
     image_width |-> image_width,
     image_height |-> image_height]

\* ObjectAnnotation.__init__
ObjectAnnotation(label, xmin, xmax, ymin, ymax) ==
    [label |-> label, xmin |-> xmin, xmax |-> xmax, ymin |-> ymin, ymax |-> ymax]

\* ObjectAnnotation.__init__ of asmithaxe.ai.dataset.annotations, the module the
\* legacy parsers and stages import: a value object with a label and a
\* bounding box (xmin, xmax, ymin, ymax), which the legacy parsers construct
\* with label=.
legacy_ObjectAnnotation(label, xmin, xmax, ymin, ymax) ==
    [label |-> label, xmin |-> xmin, xmax |-> xmax, ymin |-> ymin, ymax |-> ymax]

(***************************************************************************)
(* The state a call runs in, and the log of the calls made.                *)
(*   w.unique_labels  the label collector's dict                           *)
(*   w.packager       the TensorFlowRecordDatasetPackager's fields         *)
(*   w.files          the image files saved so far                         *)
(*   w.opened         the image files opened, in order, and by whom        *)
(*   w.cropped        the boxes cut out of images, in order, and for which *)
(*                    object annotation                                    *)
(*   w.log            the calls entered and left, in order                 *)
(*   w.err            None, or the exception that is propagating           *)
(* An event is [ev, comp, method, ia, oas, root, depth]: ev is "enter",    *)
(* "exit" (returned) or "raise" (left by an exception); root is the        *)
(* parser's image_count when it emitted the unit the call descends from.   *)
(***************************************************************************)

Event(ev, comp, method, ia, oas, root, depth) ==
    [ev |-> ev, comp |-> comp, method |-> method, ia |-> ia, oas |-> oas,
     root |-> root, depth |-> depth]

Entered(w, comp, method, ia, oas, root, depth) ==
    [w EXCEPT !.log = Append(@, Event("enter", comp, method, ia, oas, root, depth))]

Left(w, comp, method, ia, oas, root, depth) ==
    [w EXCEPT !.log = Append(@, Event(IF w.err = None THEN "exit" ELSE "raise",
                                      comp, method, ia, oas, root, depth))]

Raise(w, exception) == [w EXCEPT !.err = Some(exception)]

(***************************************************************************)
(* Image loader.                                                           *)
(***************************************************************************)

RECURSIVE on_annotated_image_available(_, _, _, _, _, _, _)
RECURSIVE notify_annotated_image_listeners(_, _, _, _, _, _, _)

\* for listener in self.annotated_image_listeners:
\*     listener.on_annotated_image_available(image, image_annotation, object_annotations)
notify_annotated_image_listeners(listeners, image, ia, oas, w, root, depth) ==
    IF listeners = <<>> \/ w.err # None THEN w
    ELSE notify_annotated_image_listeners(
             Tail(listeners), image, ia, oas,
             on_annotated_image_available(Head(listeners), image, ia, oas, w, root, depth),
             root, depth)

\* CroppingImageProcessor.on_annotated_image_available, the ImageAnnotation it
\* builds for crop number crop_count of the unit.
crop_image_annotation(ia, crop_count) ==
    LET split_filename == os_path_splitext(ia.image_filename)
    IN ImageAnnotation(split_filename[1] \o <<"_">> \o str(crop_count)
                           \o split_filename[2],
                       ia.image_width, ia.image_height)

\* Reading object.name raises AttributeError unless the object has the attribute.
hasattr(object, name) == name \in DOMAIN object

\* The world after comp cut the box out of the image for the object annotation:
\* image.crop((min_x, min_y, max_x, max_y)).
Cropped(w, comp, oa, min_x, min_y, max_x, max_y) ==
    [w EXCEPT !.cropped = Append(@, [by |-> comp, object_annotation |-> oa,
                                     min_x |-> min_x, min_y |-> min_y,
                                     max_x |-> max_x, max_y |-> max_y])]

\* CroppingImageProcessor.on_annotated_image_available (cv): the first object
\* annotation stops it, at object_annotation.class_id (an ObjectAnnotation has
\* label, xmin, xmax, ymin, ymax) or else at ObjectAnnotation(class_id=...),
\* a keyword the constructor does not take.
CroppingImageProcessor_on_annotated_image_available(comp, image, ia, oas, w, root, depth) ==
    IF oas = <<>> THEN w
    ELSE LET oa == Head(oas)
             w1 == Cropped(w, comp, oa, oa.xmin, oa.ymin, oa.xmax, oa.ymax)
         IN IF ~hasattr(oa, "class_id") THEN Raise(w1, "AttributeError")
            ELSE Raise(w1, "TypeError")

\* AnnotationRenderingImageProcessor.on_annotated_image_available (cv): drawing
\* the first box reads object_annotation.class_id.
AnnotationRenderingImageProcessor_on_annotated_image_available(comp, image, ia, oas, w, root, depth) ==
    IF \E i \in DOMAIN oas : ~hasattr(oas[i], "class_id")
    THEN Raise(w, "AttributeError")
    ELSE notify_annotated_image_listeners(annotated_image_listeners[comp], image, ia, oas,
                                          w, root, depth + 1)

\* a // b, the quotient rounded down, where a / b is meant.
TrueDiv_floor(a, b) == [num |-> a \div b, den |-> 1]

\* a / b on Python numbers: the exact quotient, kept as numerator and denominator.
TrueDiv(a, b) == [num |-> a, den |-> b]

\* A coordinate that is divided by the size whatever the flag says.
tfrecord_coordinate_always_normalised(pk, v, size) == TrueDiv(v, size)

\* v / size if self.normalise_bounding_boxes else v
tfrecord_coordinate(pk, v, size) ==
    IF pk.normalise_bounding_boxes THEN TrueDiv(v, size) ELSE TrueDiv(v, 1)

RECURSIVE tfrecord_objects(_, _, _, _, _)
\* TensorFlowRecordDatasetPackager.on_annotated_image_available, its loop over the
\* object annotations; acc holds the lists built so far and the exception raised.
tfrecord_objects(pk, ul, ia, oas, acc) ==
    IF oas = <<>> \/ acc.err # None THEN acc
    ELSE LET oa == Head(oas)
         IN tfrecord_objects(
                pk, ul, ia, Tail(oas),
                IF ~pk.label_collector
                THEN [acc EXCEPT !.err = Some("AttributeError")]
                ELSE IF pk.normalise_bounding_boxes
                        /\ (ia.image_width = 0 \/ ia.image_height = 0)
                THEN [acc EXCEPT !.err = Some("ZeroDivisionError")]
                ELSE [xmins |-> Append(acc.xmins,
                                       tfrecord_coordinate(pk, oa.xmin, ia.image_width)),
                      xmaxs |-> Append(acc.xmaxs,
                                       tfrecord_coordinate(pk, oa.xmax, ia.image_width)),
                      ymins |-> Append(acc.ymins,
                                       tfrecord_coordinate(pk, oa.ymin, ia.image_height)),
                      ymaxs |-> Append(acc.ymaxs,
                                       tfrecord_coordinate(pk, oa.ymax, ia.image_height)),
                      classes_text |-> Append(acc.classes_text, oa.label),
                      classes_id |-> Append(acc.classes_id, find(ul, oa.label).result),
                      err |-> None])

\* TensorFlowRecordDatasetPackager.on_annotated_image_available.  A label id of
\* None is rejected with TypeError when the int64 list feature is built.
TensorFlowRecordDatasetPackager_on_annotated_image_available(image, ia, oas, w) ==
    LET pk == [w.packager EXCEPT !.image_count = @ + 1]
        acc == tfrecord_objects(pk, w.unique_labels, ia, oas,
                                [xmins |-> <<>>, xmaxs |-> <<>>, ymins |-> <<>>,
                                 ymaxs |-> <<>>, classes_text |-> <<>>,
                                 classes_id |-> <<>>, err |-> None])
        tf_example == [height |-> ia.image_height,
                       width |-> ia.image_width,
                       filename |-> ia.image_filename,
                       source_id |-> ia.image_filename,
                       format |-> ia.image_format,
                       xmin |-> acc.xmins, xmax |-> acc.xmaxs,
                       ymin |-> acc.ymins, ymax |-> acc.ymaxs,
                       text |-> acc.classes_text,
                       label |-> [i \in DOMAIN acc.classes_id |-> acc.classes_id[i][1]],
                       writer_closed |-> pk.closed > 0]
    IN IF acc.err # None THEN [w EXCEPT !.packager = pk, !.err = acc.err]
       ELSE IF None \in Range(acc.classes_id)
       THEN [w EXCEPT !.packager = pk, !.err = Some("TypeError")]
       ELSE [w EXCEPT !.packager = [pk EXCEPT !.records = Append(@, tf_example)]]

\* StoreByShortFilenameDatasetPackager.on_annotated_image_available
StoreByShortFilenameDatasetPackager_on_annotated_image_available(image, ia, oas, w) ==
    [w EXCEPT !.files = Append(@, [path |-> os_path_join(OutputPath,
                                                         LastComponent(ia.image_filename)),
                                   image |-> image])]

\* StoreByLabelDatasetPackager.on_annotated_image_available: the sub-directory is
\* named by object_annotations[0].class_id.
StoreByLabelDatasetPackager_on_annotated_image_available(image, ia, oas, w) ==
    IF Len(oas) > 0
    THEN IF ~hasattr(oas[1], "class_id") THEN Raise(w, "AttributeError")
         ELSE [w EXCEPT !.files =
                   Append(@, [path |-> os_path_join(
                                           os_path_join(OutputPath, oas[1].class_id),
                                           LastComponent(ia.image_filename)),
                              image |-> image])]
    ELSE w

\* CroppingImageProcessor.process (legacy), the test before it crops: "Verify
\* that the patch area fits within the image, otherwise ignore the annotation."
legacy_crop_precheck(patch, oa, ia) ==
    /\ oa.xmin > patch.image_patch_width \div 2
    /\ oa.ymin > patch.image_patch_height \div 2
    /\ oa.xmax + patch.image_patch_width \div 2 < ia.image_width
    /\ oa.ymax + patch.image_patch_height \div 2 < ia.image_height

\* CroppingImageProcessor.process (legacy), "Calculate the cropping parameters"
\* and "Crop the image": max_y is taken from the object's ymin.
legacy_crop(comp, patch, oa, w) ==
    Cropped(w, comp, oa,
            oa.xmin - (patch.image_patch_width \div 2),
            oa.ymin - (patch.image_patch_height \div 2),
            oa.xmax + (patch.image_patch_width \div 2),
            oa.ymin + (patch.image_patch_height \div 2))

RECURSIVE CroppingImageProcessor_process(_, _, _, _, _, _, _)
\* CroppingImageProcessor.process (legacy): an object annotation that passes the
\* test is cropped and then stops it, at object_annotation.class_id or else at
\* ObjectAnnotation(class_id=...); the others are ignored.
CroppingImageProcessor_process(comp, image, ia, oas, w, root, depth) ==
    IF oas = <<>> \/ w.err # None THEN w
    ELSE CroppingImageProcessor_process(
             comp, image, ia, Tail(oas),
             IF legacy_crop_precheck(crop_patch, Head(oas), ia)
             THEN IF ~hasattr(Head(oas), "class_id")
                  THEN Raise(legacy_crop(comp, crop_patch, Head(oas), w),
                             "AttributeError")
                  ELSE Raise(legacy_crop(comp, crop_patch, Head(oas), w), "TypeError")
             ELSE w,
             root, depth)

\* AnnotationRenderingImageProcessor.process (legacy)
AnnotationRenderingImageProcessor_process(comp, image, ia, oas, w, root, depth) ==
    IF \E i \in DOMAIN oas : ~hasattr(oas[i], "class_id")
    THEN Raise(w, "AttributeError")
    ELSE notify_annotated_image_listeners(annotated_image_listeners[comp], image, ia, oas,
                                          w, root, depth + 1)

\* TensorFlowRecordDatasetPackager.append (legacy): the loop reads
\* object_annotation.class_id first; a unit without objects is written with
\* empty lists.
TensorFlowRecordDatasetPackager_append(image, ia, oas, w) ==
    LET pk == [w.packager EXCEPT !.image_count = @ + 1]
        tf_example == [height |-> ia.image_height,
                       width |-> ia.image_width,
                       filename |-> ia.image_filename,
                       source_id |-> ia.image_filename,
                       format |-> ia.image_format,
                       xmin |-> <<>>, xmax |-> <<>>, ymin |-> <<>>, ymax |-> <<>>,
                       text |-> <<>>, label |-> <<>>,
                       writer_closed |-> pk.closed > 0]
    IN IF oas # <<>>
       THEN [w EXCEPT !.packager = pk, !.err = Some("AttributeError")]
       ELSE [w EXCEPT !.packager = [pk EXCEPT !.records = Append(@, tf_example)]]

\* StoreByShortFilenameDatasetPackager.append (legacy)
StoreByShortFilenameDatasetPackager_append(image, ia, oas, w) ==
    [w EXCEPT !.files = Append(@, [path |-> os_path_join(OutputPath,
                                                         LastComponent(ia.image_filename)),
                                   image |-> image])]

\* StoreByLabelDatasetPackager.append (legacy)
StoreByLabelDatasetPackager_append(image, ia, oas, w) ==
    IF Len(oas) > 0
    THEN IF ~hasattr(oas[1], "class_id") THEN Raise(w, "AttributeError")
         ELSE [w EXCEPT !.files =
                   Append(@, [path |-> os_path_join(
                                           os_path_join(OutputPath, oas[1].class_id),
                                           LastComponent(ia.image_filename)),
                              image |-> image])]
    ELSE w

\* An AnnotatedImageListener is called (cv); an image processor, a bound
\* process or append method, is called (legacy).
on_annotated_image_available(comp, image, ia, oas, w, root, depth) ==
    LET w1 == Entered(w, comp, "on_annotated_image_available", ia, oas, root, depth)
        cv == CASE comp = "crop" ->
                       CroppingImageProcessor_on_annotated_image_available(
                           comp, image, ia, oas, w1, root, depth)
                [] comp = "render" ->
                       AnnotationRenderingImageProcessor_on_annotated_image_available(
                           comp, image, ia, oas, w1, root, depth)
                [] comp = "tfrecord" ->
                       TensorFlowRecordDatasetPackager_on_annotated_image_available(
                           image, ia, oas, w1)
                [] comp = "byshort" ->
                       StoreByShortFilenameDatasetPackager_on_annotated_image_available(
                           image, ia, oas, w1)
                [] comp = "bylabel" ->
                       StoreByLabelDatasetPackager_on_annotated_image_available(
                           image, ia, oas, w1)
        legacy == CASE comp = "crop" ->
                           CroppingImageProcessor_process(comp, image, ia, oas, w1,
                                                          root, depth)
                    [] comp = "render" ->
                           AnnotationRenderingImageProcessor_process(
                               comp, image, ia, oas, w1, root, depth)
                    [] comp = "tfrecord" ->
                           TensorFlowRecordDatasetPackager_append(image, ia, oas, w1)
                    [] comp = "byshort" ->
                           StoreByShortFilenameDatasetPackager_append(image, ia, oas, w1)
                    [] comp = "bylabel" ->
                           StoreByLabelDatasetPackager_append(image, ia, oas, w1)
        w2 == IF variant = "cv" THEN cv ELSE legacy
    IN Left(w2, comp, "on_annotated_image_available", ia, oas, root, depth)

\* Image.open(image_filename): the image read from the file.
Image_open(image_filename) == ImageSize[image_filename]

\* The world after comp opened the image file.
Opened(w, comp, image_filename) ==
    [w EXCEPT !.opened = Append(@, [by |-> comp, image_filename |-> image_filename])]

\* A loader that opens the image before it looks at the object annotations.
ImageLoader_on_annotation_available_eager(comp, ia, oas, w, root, depth) ==
    IF ia.image_filename \notin DOMAIN ImageSize
    THEN Raise(Opened(w, comp, ia.image_filename), "FileNotFoundError")
    ELSE IF Len(oas) > 0
    THEN notify_annotated_image_listeners(
             annotated_image_listeners[comp], Image_open(ia.image_filename),
             ia, oas, Opened(w, comp, ia.image_filename), root, depth + 1)
    ELSE Opened(w, comp, ia.image_filename)

\* ImageLoader.on_annotation_available (cv); Image.open raises FileNotFoundError
\* for a path that is no image file.
ImageLoader_on_annotation_available(comp, ia, oas, w, root, depth) ==
    IF Len(oas) > 0
    THEN IF ia.image_filename \notin DOMAIN ImageSize
         THEN Raise(Opened(w, comp, ia.image_filename), "FileNotFoundError")
         ELSE notify_annotated_image_listeners(
                  annotated_image_listeners[comp], Image_open(ia.image_filename),
                  ia, oas, Opened(w, comp, ia.image_filename), root, depth + 1)
    ELSE w

\* ImageLoader.load (legacy)
ImageLoader_load(comp, ia, oas, w, root, depth) ==
    IF Len(oas) > 0
    THEN IF ia.image_filename \notin DOMAIN ImageSize
         THEN Raise(Opened(w, comp, ia.image_filename), "FileNotFoundError")
         ELSE notify_annotated_image_listeners(
                  annotated_image_listeners[comp], Image_open(ia.image_filename),
                  ia, oas, Opened(w, comp, ia.image_filename), root, depth + 1)
    ELSE w

\* LabelCollector.on_annotation_available (cv), on the unit it is handed.
LabelCollector_on_annotation_available(ia, oas, w) ==
    [w EXCEPT !.unique_labels = collect_labels(@, [i \in DOMAIN oas |-> oas[i].label])]

(***************************************************************************)
(* Annotation listeners: what a parser calls with each unit.               *)
(***************************************************************************)

\* listener.on_annotation_available(image_annotation, object_annotations) (cv),
\* image_annotation_listener(image_annotation, object_annotations) (legacy)
on_annotation_available(comp, ia, oas, w, root, depth) ==
    LET w1 == Entered(w, comp, "on_annotation_available", ia, oas, root, depth)
        w2 == CASE comp = "collector" -> LabelCollector_on_annotation_available(ia, oas, w1)
                [] comp = "loader" -> ImageLoader_on_annotation_available(comp, ia, oas, w1, root, depth)
                [] comp = "load" -> ImageLoader_load(comp, ia, oas, w1, root, depth)
    IN Left(w2, comp, "on_annotation_available", ia, oas, root, depth)

RECURSIVE notify_annotation_listeners(_, _, _, _, _, _)
\* for listener in self.annotation_listeners:
\*     listener.on_annotation_available(image_annotation, object_annotations)
notify_annotation_listeners(listeners, ia, oas, w, root, depth) ==
    IF listeners = <<>> \/ w.err # None THEN w
    ELSE notify_annotation_listeners(
             Tail(listeners), ia, oas,
             on_annotation_available(Head(listeners), ia, oas, w, root, depth),
             root, depth)

(***************************************************************************)
(* Point-record parser (CatlinSeaviewSurveyCsvAnnotationFileParser).       *)
(* A row is [file_id, y, x, label, dataset]: columns 0, 1, 2, 4 and 7.     *)
(***************************************************************************)

\* image_to_annotations_dict, a dict in insertion order: a sequence of
\* [key, value] with distinct keys.
DictKeys(d) == {d[i].key : i \in DOMAIN d}

\* A grouping that starts a new group whenever the image key changes from one
\* row to the next, as a parser flushing at key boundaries would.
DictAppendTo_by_run(d, key, item) ==
    IF d # <<>> /\ d[Len(d)].key = key
    THEN [d EXCEPT ![Len(d)].value = Append(@, item)]
    ELSE Append(d, [key |-> key, value |-> <<item>>])

\* if not short_filename in image_to_annotations_dict: ... = []
\* image_to_annotations_dict[short_filename].append({...})
DictAppendTo(d, key, item) ==
    IF key \in DictKeys(d)
    THEN [i \in DOMAIN d |-> IF d[i].key = key
                             THEN [d[i] EXCEPT !.value = Append(@, item)]
                             ELSE d[i]]
    ELSE Append(d, [key |-> key, value |-> <<item>>])

\* The first loop's body: one row of the file, into the dict acc.dict.
csv_read_row(p, row, acc, label_collector) ==
    LET short_filename == row.file_id \o JPG
        y == int(row.y)
        x == int(row.x)
    IN IF short_filename \in DOMAIN p.image_dict
          /\ (p.dataset_filter = None \/ p.dataset_filter = Some(row.dataset))
       THEN IF y.err # None THEN [acc EXCEPT !.w = Raise(@, "ValueError")]
            ELSE IF x.err # None THEN [acc EXCEPT !.w = Raise(@, "ValueError")]
            ELSE [dict |-> DictAppendTo(acc.dict, short_filename,
                                        [short_filename |-> short_filename,
                                         x |-> x.result, y |-> y.result,
                                         label |-> row.label, dataset |-> row.dataset]),
                  w |-> IF label_collector
                        THEN [acc.w EXCEPT !.unique_labels = register(@, row.label).self]
                        ELSE acc.w]
       ELSE acc

RECURSIVE csv_read_rows(_, _, _, _)
\* for row in csv_reader: ...
csv_read_rows(p, rows, acc, label_collector) ==
    IF rows = <<>> \/ acc.w.err # None THEN acc
    ELSE csv_read_rows(p, Tail(rows), csv_read_row(p, Head(rows), acc, label_collector),
                       label_collector)

\* The patch around a point, with the half sizes added on the wrong axes.
patch_box_swapped(p, annotation) ==
    [xmin |-> annotation.x - p.image_patch_height \div 2,
     xmax |-> annotation.x + p.image_patch_height \div 2,
     ymin |-> annotation.y - p.image_patch_width \div 2,
     ymax |-> annotation.y + p.image_patch_width \div 2]

\* The patch around a point: x -+ image_patch_width // 2, y -+ image_patch_height // 2.
patch_box(p, annotation) ==
    [xmin |-> annotation.x - p.image_patch_width \div 2,
     xmax |-> annotation.x + p.image_patch_width \div 2,
     ymin |-> annotation.y - p.image_patch_height \div 2,
     ymax |-> annotation.y + p.image_patch_height \div 2]

\* A filter that lets a patch touch the image's edges.
patch_fits_touching(box, ia) ==
    /\ box.xmin >= 0
    /\ box.xmax <= ia.image_width
    /\ box.ymin >= 0
    /\ box.ymax <= ia.image_height

\* "if they fit entirely within the image"
patch_fits(box, ia) ==
    /\ box.xmin > 0
    /\ box.xmax < ia.image_width
    /\ box.ymin > 0
    /\ box.ymax < ia.image_height

RECURSIVE csv_object_annotations(_, _, _)
\* for annotation in annotations: ... object_annotations.append(...)
csv_object_annotations(p, annotations, ia) ==
    IF annotations = <<>> THEN <<>>
    ELSE LET box == patch_box(p, Head(annotations))
             rest == csv_object_annotations(p, Tail(annotations), ia)
         IN IF patch_fits(box, ia)
            THEN <<IF variant = "cv"
                   THEN ObjectAnnotation(Head(annotations).label,
                                         box.xmin, box.xmax, box.ymin, box.ymax)
                   ELSE legacy_ObjectAnnotation(Head(annotations).label,
                                                box.xmin, box.xmax, box.ymin, box.ymax)>>
                 \o rest
            ELSE rest

RECURSIVE csv_process_groups(_, _, _, _)
\* for short_filename in image_to_annotations_dict: ...
csv_process_groups(p, dict, image_count, w) ==
    IF dict = <<>> \/ w.err # None THEN w
    ELSE LET image_filename == p.image_dict[Head(dict).key]
             image == Image_open(image_filename)
             ia == ImageAnnotation(image_filename, image.width, image.height)
             oas == csv_object_annotations(p, Head(dict).value, ia)
         IN csv_process_groups(
                p, Tail(dict), image_count + 1,
                IF Len(oas) > 0
                THEN notify_annotation_listeners(p.annotation_listeners, ia, oas,
                                                 Opened(w, "parser", image_filename),
                                                 image_count + 1, 1)
                ELSE Opened(w, "parser", image_filename))

RECURSIVE csv_on_pipeline_start_row_by_row(_, _, _)
\* A parser that emits the unit of a row as soon as it has read the row.
csv_on_pipeline_start_row_by_row(p, file, w) ==
    IF file = <<>> \/ w.err # None THEN w
    ELSE LET acc == csv_read_row(p, Head(file), [dict |-> <<>>, w |-> w], FALSE)
         IN csv_on_pipeline_start_row_by_row(
                p, Tail(file), csv_process_groups(p, acc.dict, 0, acc.w))

\* CatlinSeaviewSurveyCsvAnnotationFileParser.on_pipeline_start (cv)
csv_on_pipeline_start(p, file, w) ==
    LET acc == csv_read_rows(p, file, [dict |-> <<>>, w |-> w], FALSE)
    IN csv_process_groups(p, acc.dict, 0, acc.w)

\* CatlinSeaviewSurveyCsvAnnotationFileParser.parse (legacy)
legacy_csv_parse(p, file, w) ==
    LET w0 == [w EXCEPT !.unique_labels =
                   legacy_parse_base(@, p.label_collector).self]
        acc == csv_read_rows(p, file, [dict |-> <<>>, w |-> w0], p.label_collector)
    IN csv_process_groups(p, acc.dict, 0, acc.w)

(***************************************************************************)
(* Structured-box parser (CvatAnnotationFileParser).                       *)
(* An image node is [name, width, height, boxes]; a box node is            *)
(* [label, xtl, xbr, ytl, ybr]; width .. ybr are attribute texts (cells).  *)
(***************************************************************************)

\* float(text): the number a decimal text denotes, ValueError for other text.
float(cell) == IF Len(cell) = 1 THEN [result |-> cell[1], err |-> None]
               ELSE [result |-> 0, err |-> Some("ValueError")]

\* A lookup that falls back on the name it was given when the image was not
\* found, as input_image_dict.get(short_filename, filename) would.
find_image_filename_defaulting(input_image_dict, filename) ==
    LET short_filename == IF "/" \notin Range(filename) THEN filename
                          ELSE LastComponent(filename)
    IN IF short_filename \in DOMAIN input_image_dict
       THEN [result |-> input_image_dict[short_filename], err |-> None]
       ELSE [result |-> filename, err |-> None]

\* find_image_filename
find_image_filename(input_image_dict, filename) ==
    LET short_filename == IF "/" \notin Range(filename) THEN filename
                          ELSE LastComponent(filename)
    IN IF "/" \in Range(filename) /\ LastComponent(filename) = <<>>
       THEN [result |-> <<>>, err |-> Some("IndexError")]
       ELSE IF short_filename \in DOMAIN input_image_dict
       THEN [result |-> input_image_dict[short_filename], err |-> None]
       ELSE [result |-> <<>>, err |-> Some("KeyError")]

\* A box read with the corners paired by position: (xtl, ytl, xbr, ybr) handed
\* to ObjectAnnotation(label, xmin, xmax, ymin, ymax).
cvat_box_corner_order(box) ==
    ObjectAnnotation(box.label, float(box.xtl).result, float(box.ytl).result,
                     float(box.xbr).result, float(box.ybr).result)

\* ObjectAnnotation(label, float(xtl), float(xbr), float(ytl), float(ybr))
cvat_box(box) ==
    IF variant = "cv"
    THEN ObjectAnnotation(box.label, float(box.xtl).result, float(box.xbr).result,
                          float(box.ytl).result, float(box.ybr).result)
    ELSE legacy_ObjectAnnotation(box.label, float(box.xtl).result,
                                 float(box.xbr).result, float(box.ytl).result,
                                 float(box.ybr).result)

cvat_box_err(box) ==
    IF \E cell \in {box.xtl, box.xbr, box.ytl, box.ybr} : float(cell).err # None
    THEN Some("ValueError") ELSE None

RECURSIVE cvat_boxes(_, _, _)
\* for box_node in image_node.findall('./box'): ...; acc is [oas, w].  The legacy
\* parser registers the label before it reads the box's coordinates.
cvat_boxes(boxes, acc, label_collector) ==
    IF boxes = <<>> \/ acc.w.err # None THEN acc
    ELSE LET box == Head(boxes)
             w1 == IF label_collector
                   THEN [acc.w EXCEPT !.unique_labels = register(@, box.label).self]
                   ELSE acc.w
         IN cvat_boxes(Tail(boxes),
                       IF cvat_box_err(box) # None
                       THEN [oas |-> acc.oas, w |-> Raise(w1, "ValueError")]
                       ELSE [oas |-> Append(acc.oas, cvat_box(box)), w |-> w1],
                       label_collector)

RECURSIVE cvat_image_nodes(_, _, _, _, _)
\* for image_node in root_node.findall('./image'): ...
cvat_image_nodes(p, nodes, image_count, w, label_collector) ==
    IF nodes = <<>> \/ w.err # None THEN w
    ELSE LET node == Head(nodes)
             image_filename == find_image_filename(p.image_dict, node.name)
             image_width == int(node.width)
             image_height == int(node.height)
             ia == ImageAnnotation(image_filename.result, image_width.result,
                                   image_height.result)
             acc == cvat_boxes(node.boxes, [oas |-> <<>>, w |-> w], label_collector)
         IN cvat_image_nodes(
                p, Tail(nodes), image_count + 1,
                IF image_filename.err # None THEN [w EXCEPT !.err = image_filename.err]
                ELSE IF image_width.err # None THEN Raise(w, "ValueError")
                ELSE IF image_height.err # None THEN Raise(w, "ValueError")
                ELSE notify_annotation_listeners(p.annotation_listeners, ia, acc.oas,
                                                 acc.w, image_count + 1, 1),
                label_collector)

RECURSIVE cvat_listener_major(_, _, _, _)
\* A breadth-first delivery: the whole document to the first listener, then the
\* whole document to the next one.
cvat_listener_major(p, listeners, document, w) ==
    IF listeners = <<>> \/ w.err # None THEN w
    ELSE cvat_listener_major(
             p, Tail(listeners), document,
             cvat_image_nodes([p EXCEPT !.annotation_listeners = <<Head(listeners)>>],
                              document, 0, w, FALSE))

cvat_on_pipeline_start_listener_major(p, document, w) ==
    cvat_listener_major(p, p.annotation_listeners, document, w)

\* CvatAnnotationFileParser.on_pipeline_start (cv)
cvat_on_pipeline_start(p, document, w) ==
    cvat_image_nodes(p, document, 0, w, FALSE)

\* CvatAnnotationFileParser.parse (legacy)
legacy_cvat_parse(p, document, w) ==
    LET w0 == [w EXCEPT !.unique_labels =
                   legacy_parse_base(@, p.label_collector).self]
    IN cvat_image_nodes(p, document, 0, w0, p.label_collector)

(***************************************************************************)
(* SpecRegistry: one registry instance under any sequence of its methods.  *)
(***************************************************************************)

\* No parser, no loader: the registry alone.
NoParser == [class |-> "none"]
NoListeners == <<>>

\* TensorFlowRecordDatasetPackager.__init__: the arguments kept, image_count = 0
\* and an open writer with nothing written.
TensorFlowRecordDatasetPackager(label_collector, normalise_bounding_boxes) ==
    [label_collector |-> label_collector,
     normalise_bounding_boxes |-> normalise_bounding_boxes,
     image_count |-> 0,
     records |-> <<>>,
     closed |-> 0]

\* No legacy CroppingImageProcessor is constructed; no unit is handed to a stage
\* other than by the parser.
NoCropPatch == [image_patch_height |-> 0, image_patch_width |-> 0]
NoInput == [stage |-> "none"]

\* No packager is wired in: the default arguments, never called.
NoPackager == TensorFlowRecordDatasetPackager(FALSE, TRUE)

Pairs(ul) == {<<l, ul[l]>> : l \in DOMAIN ul}

InitRegistry ==
    /\ variant \in {"cv", "legacy"}
    /\ unique_labels = EmptyDict
    /\ registered = <<>>
    /\ given = {}
    /\ last_call = [op |-> "init", arg |-> <<>>, result |-> None]
    /\ parser = NoParser
    /\ annotation_file = <<>>
    /\ annotated_image_listeners = NoListeners
    /\ pipeline_state_listeners = <<>>
    /\ packager = NoPackager
    /\ crop_patch = NoCropPatch
    /\ input = NoInput
    /\ files = <<>>
    /\ calls = <<>>

\* registry.register(label)
DoRegister ==
    \E label \in Labels :
        LET r == register(unique_labels, label) IN
        /\ variant = "legacy"
        /\ Len(registered) < MaxRegs
        /\ unique_labels' = r.self
        /\ registered' = Append(registered, label)
        /\ given' = given \cup Pairs(r.self)
        /\ last_call' = [op |-> "register", arg |-> <<label>>, result |-> r.result]
        /\ UNCHANGED <<variant, wiringVars, outputVars, calls>>

\* collector.on_annotation_available(image_annotation, object_annotations), seen
\* through the labels of the object annotations.
DoCollect ==
    \E labels \in SeqsUpTo(Labels, MaxBoxes) :
        LET ul == collect_labels(unique_labels, labels) IN
        /\ variant = "cv"
        /\ Len(registered) + Len(labels) <= MaxRegs
        /\ unique_labels' = ul
        /\ registered' = registered \o labels
        /\ given' = given \cup Pairs(ul)
        /\ last_call' = [op |-> "on_annotation_available", arg |-> labels,
                         result |-> None]
        /\ UNCHANGED <<variant, wiringVars, outputVars, calls>>

\* registry.find(label)
DoFind ==
    \E label \in Labels :
        LET r == IF variant = "legacy" THEN legacy_find(unique_labels, label)
                 ELSE find(unique_labels, label) IN
        /\ unique_labels' = r.self
        /\ given' = given \cup Pairs(r.self)
        /\ last_call' = [op |-> "find", arg |-> <<label>>, result |-> r.result]
        /\ UNCHANGED <<variant, registered, wiringVars, outputVars, calls>>

\* registry.get_num()
DoGetNum ==
    LET r == IF variant = "legacy" THEN legacy_get_num(unique_labels)
             ELSE get_num(unique_labels) IN
    /\ unique_labels' = r.self
    /\ last_call' = [op |-> "get_num", arg |-> <<>>, result |-> r.result]
    /\ UNCHANGED <<variant, registered, given, wiringVars, outputVars, calls>>

\* registry.clear()
DoClear ==
    LET r == clear(unique_labels) IN
    /\ variant = "legacy"
    /\ unique_labels' = r.self
    /\ registered' = <<>>
    /\ last_call' = [op |-> "clear", arg |-> <<>>, result |-> r.result]
    /\ UNCHANGED <<variant, given, wiringVars, outputVars, calls>>

\* AnnotationFileParser(listeners, label_collector=registry).parse(f)
DoParseBase ==
    LET r == legacy_parse_base(unique_labels, TRUE) IN
    /\ variant = "legacy"
    /\ unique_labels' = r.self
    /\ registered' = <<>>
    /\ last_call' = [op |-> "parse", arg |-> <<>>, result |-> r.result]
    /\ UNCHANGED <<variant, given, wiringVars, outputVars, calls>>

NextRegistry ==
    \/ DoRegister
    \/ DoCollect
    \/ DoFind
    \/ DoGetNum
    \/ DoClear
    \/ DoParseBase

SpecRegistry == InitRegistry /\ [][NextRegistry]_vars

RECURSIVE FirstSeen(_)
\* The distinct elements of s, in the order of their first occurrence.
FirstSeen(s) ==
    IF s = <<>> THEN <<>>
    ELSE LET front == FirstSeen(SubSeq(s, 1, Len(s) - 1))
             x == s[Len(s)]
         IN IF x \in Range(front) THEN front ELSE Append(front, x)

OneToOne(rel) == \A p \in rel : \A q \in rel : (p[1] = q[1]) <=> (p[2] = q[2])

\* C4: after any sequence of register calls (legacy register, or the cv
\* collector's on_annotation_available) on an empty registry, the registered
\* labels are the distinct labels seen, and the i-th of them in first-seen order
\* has id i: the ids are exactly 1..N, and registering a known label again
\* changes no id.
C4_DenseIdsInFirstSeenOrder ==
    LET fs == FirstSeen(registered) IN
    /\ DOMAIN unique_labels = Range(fs)
    /\ \A i \in 1..Len(fs) : unique_labels[fs[i]] = i

\* C4's case: a known label was registered again among two or more labels.
C4_Witness ==
    /\ last_call.op \in {"register", "on_annotation_available"}
    /\ Cardinality(DOMAIN unique_labels) >= 2
    /\ Len(registered) > Cardinality(Range(registered))

\* C5 as stated: over the lifetime of one registry instance (register, find,
\* clear and parse calls), a label is never given two ids, an id is never given
\* to two labels, and a find that returns an id returns the one given.
C5_IdsStableForLifetime ==
    /\ OneToOne(given)
    /\ (last_call.op = "find" /\ last_call.result # None)
          => <<last_call.arg[1], last_call.result[1]>> \in given

\* C5 amended: between two clears (a legacy parse clears), every call keeps the
\* id of every registered label, gives a new label an id no other label has,
\* and find returns the id the label holds.
C5_IdsStableBetweenClears ==
    [][last_call'.op \notin {"clear", "parse"} =>
          /\ \A l \in DOMAIN unique_labels :
                 l \in DOMAIN unique_labels' /\ unique_labels'[l] = unique_labels[l]
          /\ \A l \in DOMAIN unique_labels' : \A m \in DOMAIN unique_labels' :
                 unique_labels'[l] = unique_labels'[m] => l = m
          /\ (last_call'.op = "find" /\ last_call'.result # None)
                => /\ last_call'.arg[1] \in DOMAIN unique_labels
                   /\ last_call'.result = Some(unique_labels[last_call'.arg[1]])]_vars

\* C5's case: find returns the id of a label after later registrations,
\* repeated ones among them.
C5_Witness ==
    /\ last_call.op = "find"
    /\ last_call.result = Some(1)
    /\ Cardinality(DOMAIN unique_labels) >= 2
    /\ Len(registered) > Cardinality(Range(registered))

\* C6: find changes nothing in the registry (every label keeps its id and
\* get_num its value), and on a label that is not registered it returns None.
C6_FindIsPure ==
    [][last_call'.op = "find" =>
          /\ unique_labels' = unique_labels
          /\ Cardinality(DOMAIN unique_labels') = Cardinality(DOMAIN unique_labels)
          /\ last_call'.arg[1] \notin DOMAIN unique_labels
                => last_call'.result = None
          /\ last_call'.arg[1] \in DOMAIN unique_labels
                => last_call'.result = Some(unique_labels[last_call'.arg[1]])]_vars

\* C6's case: find missed on a registry that holds other labels.
C6_Witness ==
    /\ last_call.op = "find"
    /\ last_call.result = None
    /\ unique_labels # EmptyDict

(***************************************************************************)
(* SpecCsv: the point-record parser applied once to a bounded file.        *)
(***************************************************************************)

\* The largest x and y of a row.
MaxCoord == 4
\* The largest patch width and height.
MaxPatch == 3
\* The most rows of a file.
MaxRows == 3

Datasets == {"train", "test"}

CsvRow(file_id, x, y, label, dataset) ==
    [file_id |-> file_id, y |-> <<y>>, x |-> <<x>>, label |-> label, dataset |-> dataset]

CsvParser(listeners, patch_height, patch_width, filter, collector) ==
    [class |-> "CatlinSeaviewSurveyCsvAnnotationFileParser",
     annotation_listeners |-> listeners,
     image_dict |-> ImageDict,
     image_patch_height |-> patch_height,
     image_patch_width |-> patch_width,
     dataset_filter |-> filter,
     label_collector |-> collector]

\* The listeners of the parser under test: the label collector and an image
\* loader (cv), the image loader's load (legacy); the loader has no listeners.
CsvListeners == IF variant = "cv" THEN <<"collector", "loader">> ELSE <<"load">>

\* Files of at most one row, any point of the grid and any patch size; image c
\* is not among the images found.
InitCsvOneRow ==
    /\ parser \in {CsvParser(CsvListeners, ph, pw, f, c) :
                       ph \in 0..MaxPatch, pw \in 0..MaxPatch,
                       f \in {None, Some("train")},
                       c \in IF variant = "cv" THEN {FALSE} ELSE {TRUE}}
    /\ annotation_file \in
           SeqsUpTo({CsvRow(id, x, y, "fish", d) :
                        id \in {<<"a">>, <<"b">>, <<"c">>},
                        x \in 0..MaxCoord, y \in 0..MaxCoord, d \in Datasets}, 1)

\* Files of up to MaxRows rows over two images, each row inside or at the edge.
InitCsvManyRows ==
    /\ parser \in {CsvParser(CsvListeners, 2, 2, Some("train"), c) :
                       c \in IF variant = "cv" THEN {FALSE} ELSE {TRUE, FALSE}}
    /\ annotation_file \in
           SeqsUpTo({CsvRow(id, x, 2, l, d) :
                        id \in {<<"a">>, <<"b">>}, x \in {2, 3},
                        l \in {"fish", "coral"}, d \in Datasets}, MaxRows)

\* Files of up to two rows, some with an x or a y that is no number; the rows
\* of image c and of the dataset test are not considered.
InitCsvBadRows ==
    /\ parser \in {CsvParser(CsvListeners, 2, 2, Some("train"), c) :
                       c \in IF variant = "cv" THEN {FALSE} ELSE {TRUE}}
    /\ annotation_file \in
           SeqsUpTo({CsvRow(<<"a">>, 2, 2, "fish", "train"),
                     CsvRow(<<"b">>, 2, 2, "coral", "train"),
                     [CsvRow(<<"a">>, 2, 2, "kelp", "train") EXCEPT !.x = <<>>],
                     [CsvRow(<<"b">>, 2, 2, "kelp", "train") EXCEPT !.y = <<>>],
                     [CsvRow(<<"c">>, 2, 2, "kelp", "train") EXCEPT !.x = <<>>],
                     [CsvRow(<<"a">>, 2, 2, "kelp", "test") EXCEPT !.y = <<>>]}, 2)

\* The scenario of the specification: patches of 20 x 20 in an image of 100 x 100,
\* points (50, 50) and (5, 5).
InitCsvScenario ==
    /\ parser = CsvParser(CsvListeners, 20, 20, None, variant = "legacy")
    /\ annotation_file \in
           SeqsUpTo({CsvRow(<<"e">>, 50, 50, "fish", "train"),
                     CsvRow(<<"e">>, 5, 5, "coral", "train")}, 2)

\* The parser as constructed, its listeners and its annotation file.
InitCsvParser ==
    /\ variant \in {"cv", "legacy"}
    /\ given = {}
    /\ last_call = [op |-> "init", arg |-> <<>>, result |-> None]
    /\ annotated_image_listeners = ("loader" :> <<>>) @@ ("load" :> <<>>)
    /\ pipeline_state_listeners = <<>>
    /\ packager = NoPackager
    /\ crop_patch = NoCropPatch
    /\ input = NoInput
    /\ files = <<>>
    /\ calls = <<>>
    /\ \/ InitCsvOneRow
       \/ InitCsvManyRows
       \/ InitCsvBadRows
       \/ InitCsvScenario

InitCsv ==
    /\ unique_labels = EmptyDict
    /\ registered = <<>>
    /\ InitCsvParser

\* The state a call starts in.
World == [unique_labels |-> unique_labels, packager |-> packager, files |-> files,
          opened |-> <<>>, cropped |-> <<>>, log |-> <<>>, err |-> None]

\* parser.on_pipeline_start() (cv) or parser.parse(annotation_filename) (legacy)
CsvParse ==
    LET w == IF variant = "cv"
             THEN csv_on_pipeline_start(parser, annotation_file, World)
             ELSE legacy_csv_parse(parser, annotation_file, World)
    IN /\ calls = <<>>
       /\ calls' = <<[op |-> "parse", log |-> w.log, err |-> w.err,
                  opened |-> w.opened, cropped |-> w.cropped]>>
       /\ unique_labels' = w.unique_labels
       /\ packager' = w.packager
       /\ files' = w.files
       /\ UNCHANGED <<variant, registered, given, last_call, wiringVars>>

NextCsv == CsvParse

SpecCsv == InitCsv /\ [][NextCsv]_vars

\* The units a call delivered to the parser's listener number n, in order.
UnitsDeliveredTo(call, n) ==
    LET ToListener(e) == /\ e.ev = "enter"
                         /\ e.method = "on_annotation_available"
                         /\ e.depth = 1
                         /\ e.comp = parser.annotation_listeners[n]
        events == SelectSeq(call.log, ToListener)
    IN [i \in DOMAIN events |-> [ia |-> events[i].ia, oas |-> events[i].oas]]

\* Every object annotation a call handed to any listener, at any depth.
ObjectsDelivered(call) ==
    UNION {Range(call.log[i].oas) : i \in DOMAIN call.log}

\* The rows the parser considers: the image is among those found, and the
\* dataset tag equals the filter when one is set.
Considered(row) ==
    /\ row.file_id \o JPG \in DOMAIN parser.image_dict
    /\ parser.dataset_filter \in {None, Some(row.dataset)}

\* The patch of a row as the specification states it, and whether it fits.
SpecPatch(row) ==
    [label |-> row.label,
     xmin |-> row.x[1] - parser.image_patch_width \div 2,
     xmax |-> row.x[1] + parser.image_patch_width \div 2,
     ymin |-> row.y[1] - parser.image_patch_height \div 2,
     ymax |-> row.y[1] + parser.image_patch_height \div 2]
SpecFits(row) ==
    LET size == ImageSize[parser.image_dict[row.file_id \o JPG]]
        box == SpecPatch(row)
    IN box.xmin > 0 /\ box.xmax < size.width /\ box.ymin > 0 /\ box.ymax < size.height

\* C7: in a completed parse, the patch of a considered row is emitted, in the
\* unit of the row's image, if and only if xmin > 0, xmax < image_width,
\* ymin > 0 and ymax < image_height.
C7_PatchFitFilter ==
    \A c \in DOMAIN calls : calls[c].err = None =>
        \A r \in DOMAIN annotation_file :
            LET row == annotation_file[r]
                units == UnitsDeliveredTo(calls[c], 1)
            IN Considered(row) =>
                ((\E u \in DOMAIN units :
                     /\ units[u].ia.image_filename = parser.image_dict[row.file_id \o JPG]
                     /\ SpecPatch(row) \in Range(units[u].oas))
                 <=> SpecFits(row))

\* C7's case: the scenario, with (50, 50) emitted as [40, 60] x [40, 60] and
\* (5, 5) dropped.
C7_Witness ==
    /\ calls # <<>>
    /\ parser.image_patch_width = 20
    /\ Len(annotation_file) = 2
    /\ annotation_file[1].x = <<5>>
    /\ annotation_file[2].x = <<50>>
    /\ UnitsDeliveredTo(calls[1], 1) =
          <<[ia |-> ImageAnnotation(ImageDict[<<"e">> \o JPG], 100, 100),
             oas |-> <<ObjectAnnotation("fish", 40, 60, 40, 60)>>]>>

\* C8: every ObjectAnnotation a parser delivers to a listener has xmin < xmax
\* and ymin < ymax, for any patch width and height, 0 and 1 included.
C8_BoxesAreProper ==
    \A c \in DOMAIN calls :
        \A oa \in ObjectsDelivered(calls[c]) : oa.xmin < oa.xmax /\ oa.ymin < oa.ymax

\* The rows of the file that are considered, belong to image file_id and fit, as
\* object annotations in row order.
PassingRows(file_id) ==
    LET Passes(row) == row.file_id = file_id /\ Considered(row) /\ SpecFits(row)
        rows == SelectSeq(annotation_file, Passes)
    IN [i \in DOMAIN rows |-> SpecPatch(rows[i])]

\* C9: in a completed parse every listener receives at most one unit per image;
\* an image gets a unit if and only if one of its considered rows fits; and the
\* unit's objects are exactly the image's fitting rows, in row order, whether or
\* not the image's rows are contiguous.
C9_OneUnitPerImage ==
    \A c \in DOMAIN calls : calls[c].err = None =>
        \A n \in DOMAIN parser.annotation_listeners :
            LET units == UnitsDeliveredTo(calls[c], n) IN
            /\ \A i \in DOMAIN units : \A j \in DOMAIN units :
                   units[i].ia.image_filename = units[j].ia.image_filename => i = j
            /\ \A i \in DOMAIN units : \E r \in DOMAIN annotation_file :
                   /\ Considered(annotation_file[r])
                   /\ units[i].ia.image_filename =
                         parser.image_dict[annotation_file[r].file_id \o JPG]
                   /\ units[i].oas = PassingRows(annotation_file[r].file_id)
            /\ \A r \in DOMAIN annotation_file :
                   LET row == annotation_file[r] IN
                   (Considered(row) /\ PassingRows(row.file_id) # <<>>) =>
                       \E i \in DOMAIN units :
                           /\ units[i].ia.image_filename =
                                 parser.image_dict[row.file_id \o JPG]
                           /\ units[i].oas = PassingRows(row.file_id)
            /\ \A i \in DOMAIN units : units[i].oas # <<>>

\* C9's case: the rows of image a are split by a row of image b, all three fit,
\* and a's unit holds both of its rows.
C9_Witness ==
    /\ calls # <<>>
    /\ calls[1].err = None
    /\ Len(annotation_file) = 3
    /\ annotation_file[1].file_id = <<"a">>
    /\ annotation_file[2].file_id = <<"b">>
    /\ annotation_file[3].file_id = <<"a">>
    /\ LET units == UnitsDeliveredTo(calls[1], 1) IN
       /\ Len(units) = 2
       /\ Len(units[1].oas) = 2
       /\ units[1].oas[1].label # units[1].oas[2].label

(***************************************************************************)
(* SpecCvat: the structured-box parser applied once to a bounded document. *)
(***************************************************************************)

\* The most image nodes of a document.
MaxImages == 2

CvatParser(listeners, collector) ==
    [class |-> "CvatAnnotationFileParser",
     annotation_listeners |-> listeners,
     image_dict |-> ImageDict,
     label_collector |-> collector]

\* Image nodes without their boxes: a plain name, a name with a directory
\* prefix, an image that was not found, a width that is no number, a width of 0.
CvatHeaders ==
    {[name |-> <<"a">> \o JPG, width |-> <<4>>, height |-> <<4>>],
     [name |-> <<"x", "/", "b">> \o JPG, width |-> <<5>>, height |-> <<4>>],
     [name |-> <<"c">> \o JPG, width |-> <<4>>, height |-> <<4>>],
     [name |-> <<"a">> \o JPG, width |-> <<>>, height |-> <<4>>],
     [name |-> <<"a">> \o JPG, width |-> <<0>>, height |-> <<4>>]}

\* Box nodes: two proper boxes, one whose corners are inverted, one whose ybr
\* is no number.
CvatBoxes ==
    {[label |-> "fish", xtl |-> <<1>>, xbr |-> <<3>>, ytl |-> <<2>>, ybr |-> <<4>>],
     [label |-> "coral", xtl |-> <<0>>, xbr |-> <<2>>, ytl |-> <<1>>, ybr |-> <<3>>],
     [label |-> "fish", xtl |-> <<3>>, xbr |-> <<1>>, ytl |-> <<4>>, ybr |-> <<2>>],
     [label |-> "kelp", xtl |-> <<1>>, xbr |-> <<3>>, ytl |-> <<2>>, ybr |-> <<>>]}

\* The ways to hand k boxes, in order, to m image nodes.
Owners(k, m) == {f \in [1..k -> 1..m] : \A i \in 1..(k - 1) : f[i] <= f[i + 1]}

CvatDocument(headers, boxes, owner) ==
    [i \in DOMAIN headers |->
        LET mine == {j \in DOMAIN boxes : owner[j] = i}
            first == CHOOSE j \in mine : \A k \in mine : j <= k
        IN [name |-> headers[i].name,
            width |-> headers[i].width,
            height |-> headers[i].height,
            boxes |-> [n \in 1..Cardinality(mine) |-> boxes[first + n - 1]]]]

\* Documents of up to max_images image nodes holding up to max_boxes box nodes.
CvatDocuments(max_images, max_boxes) ==
    UNION {UNION {{CvatDocument(hs, bs, ow) : ow \in Owners(Len(bs), Len(hs))} :
                     bs \in SeqsUpTo(CvatBoxes, max_boxes)} :
              hs \in SeqsUpTo(CvatHeaders, max_images)}

\* The parser as constructed, its listeners and its document.
InitCvatParser ==
    /\ variant \in {"cv", "legacy"}
    /\ given = {}
    /\ last_call = [op |-> "init", arg |-> <<>>, result |-> None]
    /\ annotated_image_listeners = ("loader" :> <<>>) @@ ("load" :> <<>>)
    /\ pipeline_state_listeners = <<>>
    /\ packager = NoPackager
    /\ crop_patch = NoCropPatch
    /\ input = NoInput
    /\ files = <<>>
    /\ calls = <<>>
    /\ parser \in {CvatParser(CsvListeners, c) :
                      c \in IF variant = "cv" THEN {FALSE} ELSE {TRUE, FALSE}}
    /\ annotation_file \in CvatDocuments(MaxImages, MaxBoxes)

InitCvat ==
    /\ unique_labels = EmptyDict
    /\ registered = <<>>
    /\ InitCvatParser

\* parser.on_pipeline_start() (cv) or parser.parse(annotation_filename) (legacy)
CvatParse ==
    LET w == IF variant = "cv"
             THEN cvat_on_pipeline_start(parser, annotation_file, World)
             ELSE legacy_cvat_parse(parser, annotation_file, World)
    IN /\ calls = <<>>
       /\ calls' = <<[op |-> "parse", log |-> w.log, err |-> w.err,
                  opened |-> w.opened, cropped |-> w.cropped]>>
       /\ unique_labels' = w.unique_labels
       /\ packager' = w.packager
       /\ files' = w.files
       /\ UNCHANGED <<variant, registered, given, last_call, wiringVars>>

NextCvat == CvatParse

SpecCvat == InitCvat /\ [][NextCvat]_vars

\* The calls a parser made on its listeners during a call, in order.
Deliveries(call) ==
    LET ByParser(e) == /\ e.ev = "enter"
                       /\ e.method = "on_annotation_available"
                       /\ e.depth = 1
        events == SelectSeq(call.log, ByParser)
    IN [i \in DOMAIN events |->
           [comp |-> events[i].comp, ia |-> events[i].ia, oas |-> events[i].oas]]

\* The unit the specification states for an image node.
SpecUnit(node) ==
    [ia |-> [image_filename |-> ImageDict[LastComponent(node.name)],
             image_format |-> "jpg",
             image_width |-> node.width[1],
             image_height |-> node.height[1]],
     oas |-> [k \in DOMAIN node.boxes |->
                 [label |-> node.boxes[k].label,
                  xmin |-> node.boxes[k].xtl[1], xmax |-> node.boxes[k].xbr[1],
                  ymin |-> node.boxes[k].ytl[1], ymax |-> node.boxes[k].ybr[1]]]]

\* The node can be read: its image was found and its attributes are numbers.
Readable(node) ==
    /\ LastComponent(node.name) \in DOMAIN ImageDict
    /\ node.width # <<>> /\ node.height # <<>>
    /\ \A k \in DOMAIN node.boxes :
          <<>> \notin {node.boxes[k].xtl, node.boxes[k].xbr,
                       node.boxes[k].ytl, node.boxes[k].ybr}

\* C10: the structured-box parser calls its listeners once per image node, in
\* document order and, per node, in registration order, also for a node without
\* boxes; the unit holds one ObjectAnnotation per box node, in document order,
\* with (xmin, xmax, ymin, ymax) = (xtl, xbr, ytl, ybr), none filtered out.  A
\* parse that ends without error has done so for every image node; one that an
\* error ends has done so for the nodes before the error.
C10_OneUnitPerImageNode ==
    \A c \in DOMAIN calls :
        LET d == Deliveries(calls[c])
            listeners == parser.annotation_listeners
            n == Len(listeners)
        IN /\ \A j \in DOMAIN d :
                  LET i == (j - 1) \div n + 1
                  IN /\ i <= Len(annotation_file)
                     /\ Readable(annotation_file[i])
                     /\ d[j].comp = listeners[((j - 1) % n) + 1]
                     /\ d[j].ia = SpecUnit(annotation_file[i]).ia
                     /\ d[j].oas = SpecUnit(annotation_file[i]).oas
           /\ calls[c].err = None => Len(d) = n * Len(annotation_file)

\* C10's case: a completed parse of two image nodes, the first without boxes,
\* the second with two, delivered to two listeners.
C10_Witness ==
    /\ calls # <<>>
    /\ calls[1].err = None
    /\ Len(annotation_file) = 2
    /\ annotation_file[1].boxes = <<>>
    /\ Len(annotation_file[2].boxes) = 2
    /\ Len(parser.annotation_listeners) = 2
    /\ Len(Deliveries(calls[1])) = 4

(***************************************************************************)
(* Spec: a Pipeline over a wired parser, label collector, image loader and *)
(* packagers (cv), under any sequence of start() and stop() calls.         *)
(***************************************************************************)

\* The most start() and stop() calls made on one Pipeline.
MaxCalls == 3
\* The most image nodes or rows of the annotation file the Pipeline runs over.
MaxUnits == 2

\* A lifecycle notification carries no unit.
NoUnit == [ia |-> None, oas |-> <<>>]

\* listener.on_pipeline_start(): the parsers parse their file; the label
\* collector and the packagers inherit or define a method that does nothing.
on_pipeline_start(comp, w) ==
    LET w1 == Entered(w, comp, "on_pipeline_start", NoUnit.ia, NoUnit.oas, 0, 0)
        w2 == IF comp = "parser"
              THEN IF parser.class = "CvatAnnotationFileParser"
                   THEN cvat_on_pipeline_start(parser, annotation_file, w1)
                   ELSE csv_on_pipeline_start(parser, annotation_file, w1)
              ELSE w1
    IN Left(w2, comp, "on_pipeline_start", NoUnit.ia, NoUnit.oas, 0, 0)

\* listener.on_pipeline_stop(): the TensorFlowRecordDatasetPackager closes its
\* writer; the parsers, the label collector and the store packagers change nothing.
on_pipeline_stop(comp, w) ==
    LET w1 == Entered(w, comp, "on_pipeline_stop", NoUnit.ia, NoUnit.oas, 0, 0)
        w2 == IF comp = "tfrecord"
              THEN [w1 EXCEPT !.packager.closed = @ + 1]
              ELSE w1
    IN Left(w2, comp, "on_pipeline_stop", NoUnit.ia, NoUnit.oas, 0, 0)

RECURSIVE Pipeline_start_continuing(_, _)
\* A start that swallows a listener's exception and goes on to the next listener.
Pipeline_start_continuing(listeners, w) ==
    IF listeners = <<>> THEN w
    ELSE Pipeline_start_continuing(
             Tail(listeners),
             [on_pipeline_start(Head(listeners), w) EXCEPT !.err = None])

RECURSIVE Pipeline_start(_, _)
\* Pipeline.start: for listener in self.pipeline_state_listeners:
\*                     listener.on_pipeline_start()
Pipeline_start(listeners, w) ==
    IF listeners = <<>> \/ w.err # None THEN w
    ELSE Pipeline_start(Tail(listeners), on_pipeline_start(Head(listeners), w))

RECURSIVE Pipeline_stop_reversed(_, _)
\* A stop that unwinds: the listeners are notified last registered first.
Pipeline_stop_reversed(listeners, w) ==
    IF listeners = <<>> \/ w.err # None THEN w
    ELSE Pipeline_stop_reversed(SubSeq(listeners, 1, Len(listeners) - 1),
                                on_pipeline_stop(listeners[Len(listeners)], w))

RECURSIVE Pipeline_stop(_, _)
\* Pipeline.stop: for listener in self.pipeline_state_listeners:
\*                    listener.on_pipeline_stop()
Pipeline_stop(listeners, w) ==
    IF listeners = <<>> \/ w.err # None THEN w
    ELSE Pipeline_stop(Tail(listeners), on_pipeline_stop(Head(listeners), w))

\* The lifecycle listeners wired in: parser, label collector and packager, any
\* of them, in any order of registration.
LifecycleListeners ==
    {s \in SeqsUpTo({"parser", "collector", "tfrecord"}, 3) :
        /\ s # <<>>
        /\ \A i, j \in DOMAIN s : i # j => s[i] # s[j]}

\* The wirings downstream of the parser: the parser's annotation listeners, the
\* annotated image listeners of the loader and of the processors, and the
\* packager's label_collector and normalise_bounding_boxes arguments.
Wiring(annotation_listeners, loader, render, crop, label_collector, normalise) ==
    [annotation_listeners |-> annotation_listeners,
     annotated_image_listeners |->
         ("loader" :> loader) @@ ("render" :> render) @@ ("crop" :> crop),
     packager |-> TensorFlowRecordDatasetPackager(label_collector, normalise)]

Wirings ==
    {Wiring(<<"collector", "loader">>, <<"tfrecord">>, <<>>, <<>>, TRUE, TRUE),
     Wiring(<<"collector", "loader">>, <<"tfrecord", "byshort">>, <<>>, <<>>, TRUE, FALSE),
     Wiring(<<"loader", "collector">>, <<"byshort", "tfrecord">>, <<>>, <<>>, TRUE, TRUE),
     Wiring(<<"loader">>, <<"byshort", "tfrecord">>, <<>>, <<>>, FALSE, TRUE),
     Wiring(<<"collector", "loader">>, <<"byshort", "render">>, <<"tfrecord">>, <<>>,
            TRUE, TRUE),
     Wiring(<<"loader", "collector">>, <<"crop", "bylabel">>, <<>>, <<"byshort">>,
            TRUE, TRUE)}

\* An image of 100 x 50 holding a fish and a coral.
FishAndCoral ==
    [name |-> <<"f">> \o JPG, width |-> <<100>>, height |-> <<50>>,
     boxes |-> <<[label |-> "fish", xtl |-> <<10>>, xbr |-> <<20>>,
                  ytl |-> <<5>>, ybr |-> <<15>>],
                 [label |-> "coral", xtl |-> <<50>>, xbr |-> <<90>>,
                  ytl |-> <<10>>, ybr |-> <<40>>]>>]

\* Image nodes of the structured-box documents: one box, two boxes, no box, an
\* image that was not found, and the image of 100 x 50.
PipelineImageNodes ==
    {[name |-> <<"a">> \o JPG, width |-> <<4>>, height |-> <<4>>,
      boxes |-> <<[label |-> "fish", xtl |-> <<1>>, xbr |-> <<3>>,
                   ytl |-> <<2>>, ybr |-> <<4>>]>>],
     [name |-> <<"x", "/", "b">> \o JPG, width |-> <<5>>, height |-> <<4>>,
      boxes |-> <<[label |-> "coral", xtl |-> <<0>>, xbr |-> <<2>>,
                   ytl |-> <<1>>, ybr |-> <<3>>],
                  [label |-> "fish", xtl |-> <<1>>, xbr |-> <<3>>,
                   ytl |-> <<2>>, ybr |-> <<4>>]>>],
     [name |-> <<"a">> \o JPG, width |-> <<4>>, height |-> <<4>>, boxes |-> <<>>],
     [name |-> <<"c">> \o JPG, width |-> <<4>>, height |-> <<4>>,
      boxes |-> <<[label |-> "kelp", xtl |-> <<1>>, xbr |-> <<3>>,
                   ytl |-> <<2>>, ybr |-> <<4>>]>>],
     FishAndCoral}

\* Rows of the point-record files: a point inside each image and one whose
\* patch leaves the image.
PipelineRows ==
    {CsvRow(<<"a">>, 2, 2, "fish", "train"),
     CsvRow(<<"b">>, 2, 2, "coral", "train"),
     CsvRow(<<"a">>, 0, 0, "kelp", "train")}

Init ==
    /\ variant = "cv"
    /\ unique_labels = EmptyDict
    /\ registered = <<>>
    /\ given = {}
    /\ last_call = [op |-> "init", arg |-> <<>>, result |-> None]
    /\ pipeline_state_listeners \in LifecycleListeners
    /\ crop_patch = NoCropPatch
    /\ input = NoInput
    /\ files = <<>>
    /\ calls = <<>>
    /\ \E wiring \in Wirings :
          /\ annotated_image_listeners = wiring.annotated_image_listeners
          /\ packager = wiring.packager
          /\ \/ /\ parser = CvatParser(wiring.annotation_listeners, FALSE)
                /\ annotation_file \in SeqsUpTo(PipelineImageNodes, MaxUnits)
             \/ /\ parser = CsvParser(wiring.annotation_listeners, 2, 2, None, FALSE)
                /\ annotation_file \in SeqsUpTo(PipelineRows, MaxUnits)

\* pipeline.start()
Start ==
    LET w == Pipeline_start(pipeline_state_listeners, World)
    IN /\ Len(calls) < MaxCalls
       /\ calls' = Append(calls, [op |-> "start", log |-> w.log, err |-> w.err,
                                opened |-> w.opened, cropped |-> w.cropped])
       /\ unique_labels' = w.unique_labels
       /\ packager' = w.packager
       /\ files' = w.files
       /\ UNCHANGED <<variant, registered, given, last_call, wiringVars>>

\* pipeline.stop()
Stop ==
    LET w == Pipeline_stop(pipeline_state_listeners, World)
    IN /\ Len(calls) < MaxCalls
       /\ calls' = Append(calls, [op |-> "stop", log |-> w.log, err |-> w.err,
                                opened |-> w.opened, cropped |-> w.cropped])
       /\ unique_labels' = w.unique_labels
       /\ packager' = w.packager
       /\ files' = w.files
       /\ UNCHANGED <<variant, registered, given, last_call, wiringVars>>

Next ==
    \/ Start
    \/ Stop

Spec == Init /\ [][Next]_vars

\* The lifecycle notifications a call delivered, in order.
Notifications(call) ==
    SelectSeq(call.log, LAMBDA e : e.ev = "enter" /\ e.depth = 0)

IsPrefix(s, t) == Len(s) <= Len(t) /\ s = SubSeq(t, 1, Len(s))

\* C1: a start() made after a stop() raises an error and delivers no
\* on_pipeline_start notification to any listener.
C1_StartAfterStopFailsFast ==
    \A i \in DOMAIN calls :
        (calls[i].op = "start" /\ \E j \in 1..(i - 1) : calls[j].op = "stop")
        => /\ calls[i].err # None
           /\ Notifications(calls[i]) = <<>>

\* C2: start() notifies the registered listeners L1 .. Ln with
\* on_pipeline_start in registration order, each once, and stop() notifies them
\* with on_pipeline_stop in the same order, each once; a call that a listener's
\* exception ends has notified L1 .. Lk, the listener that raised being Lk.
C2_LifecycleInRegistrationOrder ==
    \A c \in DOMAIN calls :
        LET call == calls[c]
            n == Notifications(call)
            method == IF call.op = "start" THEN "on_pipeline_start"
                      ELSE "on_pipeline_stop"
        IN /\ \A k \in DOMAIN n : n[k].method = method
           /\ IsPrefix([k \in DOMAIN n |-> n[k].comp], pipeline_state_listeners)
           /\ call.err = None => Len(n) = Len(pipeline_state_listeners)
           /\ call.err # None =>
                  /\ n # <<>>
                  /\ call.log[Len(call.log)] =
                         [n[Len(n)] EXCEPT !.ev = "raise"]

\* C2's case: three listeners, a start() that returned after the parser
\* delivered a unit, then a stop() that returned.
C2_Witness ==
    /\ Len(pipeline_state_listeners) = 3
    /\ Len(calls) >= 2
    /\ calls[1].op = "start" /\ calls[1].err = None
    /\ \E e \in Range(calls[1].log) : e.depth = 2
    /\ calls[2].op = "stop" /\ calls[2].err = None
    /\ Len(Notifications(calls[2])) = 3

\* The calls open just before event k of a log.
OpenBefore(log, k) ==
    Cardinality({i \in 1..(k - 1) : log[i].ev = "enter"})
    - Cardinality({i \in 1..(k - 1) : log[i].ev # "enter"})

\* Every call is made from within the call one level up, and is left before that
\* call goes on: the level of an entered call is the number of calls open.
Synchronous(log) ==
    \A k \in DOMAIN log :
        /\ log[k].ev = "enter" => log[k].depth = OpenBefore(log, k)
        /\ log[k].ev # "enter" =>
               /\ log[k].depth = OpenBefore(log, k) - 1
               /\ \E i \in 1..(k - 1) :
                      /\ log[i] = [log[k] EXCEPT !.ev = "enter"]
                      /\ OpenBefore(log, i) = log[k].depth
                      /\ \A m \in (i + 1)..(k - 1) : log[m].depth > log[k].depth

\* C3: the dataflow is depth-first.  Every callback caused by a unit has been
\* left before any callback for the next unit is entered, and among the
\* listeners of one stage everything a listener triggers is left before the
\* next listener is entered.
C3_DepthFirst ==
    \A c \in DOMAIN calls :
        LET log == calls[c].log
        IN /\ Synchronous(log)
           /\ \A i, j \in DOMAIN log :
                  (i < j /\ log[i].depth >= 1 /\ log[j].depth >= 1)
                  => log[i].root <= log[j].root

\* C3's case: a start() that returned after the parser delivered two units to
\* two listeners each, the image loader handing both to two packagers.
C3_Witness ==
    \E c \in DOMAIN calls :
        LET log == calls[c].log
        IN /\ calls[c].err = None
           /\ \E e \in Range(log) : e.root = 2 /\ e.depth = 2 /\ e.comp = "tfrecord"
           /\ \E e \in Range(log) : e.root = 1 /\ e.depth = 2 /\ e.comp = "byshort"
           /\ \E e \in Range(log) : e.root = 1 /\ e.depth = 1 /\ e.comp = "collector"
           /\ \E e \in Range(log) : e.root = 2 /\ e.depth = 1 /\ e.comp = "loader"

(***************************************************************************)
(* SpecParse: either parser applied once to a bounded annotation file.     *)
(***************************************************************************)

\* A registry that has been used before it is given to a parser:
\* register('urchin'), register('fish').
UsedRegistry == register(register(EmptyDict, "urchin").self, "fish").self

\* A legacy parser constructed with the used registry as its label_collector.
InitUsedRegistry ==
    /\ unique_labels = UsedRegistry
    /\ registered = <<"urchin", "fish">>
    /\ \/ InitCsvParser
       \/ InitCvatParser
    /\ variant = "legacy"
    /\ parser.label_collector

InitParse ==
    \/ InitCsv
    \/ InitCvat
    \/ InitUsedRegistry

\* CvatAnnotationFileParser: on_pipeline_start() (cv) or parse(f) (legacy)
ParseCvat ==
    /\ parser.class = "CvatAnnotationFileParser"
    /\ CvatParse

\* CatlinSeaviewSurveyCsvAnnotationFileParser: on_pipeline_start() (cv) or
\* parse(f) (legacy)
ParseCsv ==
    /\ parser.class = "CatlinSeaviewSurveyCsvAnnotationFileParser"
    /\ CsvParse

NextParse ==
    \/ ParseCvat
    \/ ParseCsv

SpecParse == InitParse /\ [][NextParse]_vars

\* The record names an image that the filename lookup does not hold.
AbsentImage(record) ==
    IF parser.class = "CvatAnnotationFileParser"
    THEN LastComponent(record.name) \notin DOMAIN parser.image_dict
    ELSE record.file_id \o JPG \notin DOMAIN parser.image_dict

StageImageAnnotations ==
    {ImageAnnotation(<<"d", "/", "a">> \o JPG, 4, 4),
     ImageAnnotation(<<"d", "/", "b">> \o JPG, 5, 4),
     ImageAnnotation(<<"d", "/", "c">> \o JPG, 4, 4)}

\* The object annotations of the units.
StageObjects ==
    {ObjectAnnotation("fish", 1, 3, 2, 3),
     ObjectAnnotation("coral", 0, 2, 1, 3),
     ObjectAnnotation("kelp", 2, 3, 1, 2)}

\* The unit as the stage receives it; the loader receives no image.
StageInput(stage, ia, oas) ==
    [stage |-> stage,
     image |-> IF ia.image_filename \in DOMAIN ImageSize
               THEN Image_open(ia.image_filename) ELSE None,
     ia |-> ia,
     oas |-> oas]

\* Registries as the label collector leaves them after some units.
StageRegistries ==
    {collect_labels(EmptyDict, labels) :
        labels \in {<<>>, <<"fish">>, <<"coral", "fish">>, <<"fish", "coral", "kelp">>}}

StageListeners(listeners) ==
    ("loader" :> listeners) @@ ("load" :> listeners) @@
    ("crop" :> listeners) @@ ("render" :> listeners)

\* A unit for the image loader.
InitLoad ==
    /\ input \in {StageInput(IF variant = "cv" THEN "loader" ELSE "load", ia, oas) :
                     ia \in StageImageAnnotations,
                     oas \in SeqsUpTo(StageObjects, MaxBoxes)}
    /\ annotated_image_listeners \in
           {StageListeners(l) : l \in {<<>>, <<"byshort">>, <<"byshort", "tfrecord">>,
                                       <<"bylabel", "byshort">>}}
    /\ crop_patch = NoCropPatch
    /\ packager = TensorFlowRecordDatasetPackager(TRUE, TRUE)
    /\ unique_labels = collect_labels(EmptyDict, <<"fish", "coral", "kelp">>)

\* A unit and its image for a processing stage.
InitProcess ==
    /\ input \in {StageInput(stage, ia, oas) :
                     stage \in {"crop", "render"},
                     ia \in {a \in StageImageAnnotations :
                                a.image_filename \in DOMAIN ImageSize},
                     oas \in SeqsUpTo(StageObjects, MaxBoxes)}
    /\ annotated_image_listeners \in
           {StageListeners(l) : l \in {<<"byshort">>, <<"byshort", "tfrecord">>}}
    /\ crop_patch \in IF variant = "cv" \/ input.stage # "crop" THEN {NoCropPatch}
                      ELSE {[image_patch_height |-> h, image_patch_width |-> h] :
                               h \in {0, 2}}
    /\ packager = TensorFlowRecordDatasetPackager(TRUE, TRUE)
    /\ unique_labels = collect_labels(EmptyDict, <<"fish", "coral", "kelp">>)

\* A unit and its image for a packager.
InitAppend ==
    /\ input \in {StageInput(stage, ia, oas) :
                     stage \in {"tfrecord", "bylabel", "byshort"},
                     ia \in {a \in StageImageAnnotations :
                                a.image_filename \in DOMAIN ImageSize},
                     oas \in SeqsUpTo(StageObjects, MaxBoxes)}
    /\ annotated_image_listeners = StageListeners(<<>>)
    /\ crop_patch = NoCropPatch
    /\ packager \in IF input.stage = "tfrecord"
                    THEN {TensorFlowRecordDatasetPackager(c, n) : c, n \in BOOLEAN}
                    ELSE {NoPackager}
    /\ unique_labels \in IF input.stage = "tfrecord" THEN StageRegistries
                         ELSE {EmptyDict}

InitStage ==
    /\ variant \in {"cv", "legacy"}
    /\ registered = <<>>
    /\ given = {}
    /\ last_call = [op |-> "init", arg |-> <<>>, result |-> None]
    /\ parser = NoParser
    /\ annotation_file = <<>>
    /\ pipeline_state_listeners = <<>>
    /\ files = <<>>
    /\ calls = <<>>
    /\ \/ InitLoad
       \/ InitProcess
       \/ InitAppend

\* What a call on the stage under test leaves behind.
StageCalled(op, w) ==
    /\ calls' = <<[op |-> op, log |-> w.log, err |-> w.err, opened |-> w.opened,
                   cropped |-> w.cropped]>>
    /\ unique_labels' = w.unique_labels
    /\ packager' = w.packager
    /\ files' = w.files
    /\ UNCHANGED <<variant, registered, given, last_call, wiringVars>>

\* loader.on_annotation_available(ia, oas) (cv), loader.load(ia, oas) (legacy)
Load ==
    /\ calls = <<>>
    /\ input.stage \in {"loader", "load"}
    /\ StageCalled("load", on_annotation_available(input.stage, input.ia, input.oas,
                                                   World, 1, 1))

\* processor.on_annotated_image_available(image, ia, oas) (cv),
\* processor.process(image, ia, oas) (legacy)
Process ==
    /\ calls = <<>>
    /\ input.stage \in {"crop", "render"}
    /\ StageCalled("process", on_annotated_image_available(
                                  input.stage, input.image, input.ia, input.oas,
                                  World, 1, 1))

\* packager.on_annotated_image_available(image, ia, oas) (cv),
\* packager.append(image, ia, oas) (legacy)
PackagerAppend ==
    /\ calls = <<>>
    /\ input.stage \in {"tfrecord", "bylabel", "byshort"}
    /\ StageCalled("append", on_annotated_image_available(
                                 input.stage, input.image, input.ia, input.oas,
                                 World, 1, 1))

NextStage ==
    \/ Load
    \/ Process
    \/ PackagerAppend

SpecStage == InitStage /\ [][NextStage]_vars

\* The units the stage under test handed to its listeners, in order.
Forwarded(call) ==
    LET ByStage(e) == /\ e.ev = "enter"
                      /\ e.method = "on_annotated_image_available"
                      /\ e.depth = 2
        events == SelectSeq(call.log, ByStage)
    IN [i \in DOMAIN events |->
           [comp |-> events[i].comp, ia |-> events[i].ia, oas |-> events[i].oas]]

\* C12: handed a unit without object annotations the image loader opens no
\* image and calls no listener; handed a unit with some, it opens the unit's
\* image once and calls its listeners in registration order, each once, with
\* the ImageAnnotation and the object list it was handed -- all of them when the
\* call returns, those up to the one that raised when it does not.
C12_LoaderGate ==
    \A c \in DOMAIN calls : calls[c].op = "load" =>
        LET call == calls[c]
            fw == Forwarded(call)
            listeners == annotated_image_listeners[input.stage]
        IN IF input.oas = <<>>
           THEN call.opened = <<>> /\ fw = <<>> /\ call.err = None
           ELSE /\ call.opened = <<[by |-> input.stage,
                                    image_filename |-> input.ia.image_filename]>>
                /\ IsPrefix([k \in DOMAIN fw |-> fw[k].comp], listeners)
                /\ \A k \in DOMAIN fw : fw[k].ia = input.ia /\ fw[k].oas = input.oas
                /\ call.err = None => Len(fw) = Len(listeners)

\* C12's case: a unit with two objects, loaded and handed to two listeners.
C12_Witness ==
    /\ calls # <<>>
    /\ calls[1].op = "load"
    /\ calls[1].err = None
    /\ Len(input.oas) = 2
    /\ Len(Forwarded(calls[1])) = 2
    /\ Len(calls[1].opened) = 1

\* C13: handed a unit with K object annotations, the crop stage hands K derived
\* units to each of its listeners, object by object and listener by listener;
\* each holds one object, and the i-th (from 0) names the source path with _i
\* before the extension.
C13_CropForwardsOnePerObject ==
    \A c \in DOMAIN calls : (calls[c].op = "process" /\ input.stage = "crop") =>
        LET fw == Forwarded(calls[c])
            listeners == annotated_image_listeners["crop"]
            n == Len(listeners)
        IN /\ Len(fw) = Len(input.oas) * n
           /\ \A j \in DOMAIN fw :
                  LET i == (j - 1) \div n
                  IN /\ fw[j].comp = listeners[((j - 1) % n) + 1]
                     /\ Len(fw[j].oas) = 1
                     /\ fw[j].ia.image_filename =
                            crop_image_annotation(input.ia, i).image_filename

\* C14: for every object annotation of its input the crop stage forwards a
\* derived unit whose ImageAnnotation declares the source's width and height
\* and whose one ObjectAnnotation has the object's label, xmin = 0, ymin = 0,
\* xmax = xmax - xmin and ymax = ymax - ymin of the object.
C14_CropRebases ==
    \A c \in DOMAIN calls : (calls[c].op = "process" /\ input.stage = "crop") =>
        LET fw == Forwarded(calls[c])
        IN \A i \in DOMAIN input.oas :
               \E j \in DOMAIN fw :
                   /\ fw[j].ia.image_width = input.ia.image_width
                   /\ fw[j].ia.image_height = input.ia.image_height
                   /\ fw[j].oas = <<ObjectAnnotation(
                                        input.oas[i].label,
                                        0, input.oas[i].xmax - input.oas[i].xmin,
                                        0, input.oas[i].ymax - input.oas[i].ymin)>>

\* C15: the rendering stage hands the unit it received, the same
\* ImageAnnotation and the same object list, to each of its listeners once, in
\* registration order.
C15_RenderForwardsUnit ==
    \A c \in DOMAIN calls : (calls[c].op = "process" /\ input.stage = "render") =>
        LET fw == Forwarded(calls[c])
        IN fw = [k \in DOMAIN annotated_image_listeners["render"] |->
                    [comp |-> annotated_image_listeners["render"][k],
                     ia |-> input.ia, oas |-> input.oas]]

\* C16: the store-by-label packager, handed a unit without object annotations,
\* saves nothing and raises nothing; handed a unit with some, it saves one
\* file, named by the basename of the image path, in the sub-directory named
\* by the first object annotation's label.
C16_StoreByLabel ==
    \A c \in DOMAIN calls : (calls[c].op = "append" /\ input.stage = "bylabel") =>
        IF input.oas = <<>>
        THEN calls[c].err = None /\ files = <<>>
        ELSE /\ calls[c].err = None
             /\ Len(files) = 1
             /\ files[1].path =
                    OutputPath \o <<"/">> \o <<input.oas[1].label>> \o <<"/">>
                        \o LastComponent(input.ia.image_filename)

\* C17: every append of the serialized-record packager writes one record, and
\* the numeric id of every object in a record is the id the label collector
\* holds for the object's label, whatever the order of collector and loader
\* among the parser's listeners and whether or not a collector was supplied.
C17_RecordsCarryRegistryIds ==
    /\ Len(packager.records) = packager.image_count
    /\ \A r \in DOMAIN packager.records :
           LET record == packager.records[r]
           IN \A k \in DOMAIN record.text :
                  /\ record.text[k] \in DOMAIN unique_labels
                  /\ record.label[k] = unique_labels[record.text[k]]

\* The stored value v times the dimension size gives the coordinate x.
TimesIs(v, size, x) == v.num * size = x * v.den

\* C18: in a record the serialized-record packager writes with normalisation
\* on, each x coordinate times the ImageAnnotation's width and each y
\* coordinate times its height is the object's coordinate; with normalisation
\* off the stored coordinates are the object's.
C18_Normalisation ==
    \A c \in DOMAIN calls :
        (calls[c].op = "append" /\ input.stage = "tfrecord" /\ calls[c].err = None) =>
            /\ Len(packager.records) = 1
            /\ LET record == packager.records[1]
                   w == IF packager.normalise_bounding_boxes
                        THEN input.ia.image_width ELSE 1
                   h == IF packager.normalise_bounding_boxes
                        THEN input.ia.image_height ELSE 1
               IN /\ \A list \in {record.xmin, record.xmax, record.ymin, record.ymax} :
                         Len(list) = Len(input.oas)
                  /\ \A k \in DOMAIN input.oas :
                         /\ TimesIs(record.xmin[k], w, input.oas[k].xmin)
                         /\ TimesIs(record.xmax[k], w, input.oas[k].xmax)
                         /\ TimesIs(record.ymin[k], h, input.oas[k].ymin)
                         /\ TimesIs(record.ymax[k], h, input.oas[k].ymax)
                         /\ ~packager.normalise_bounding_boxes =>
                                /\ record.xmin[k].den = 1
                                /\ record.ymax[k].den = 1

\* C18's case: a record of two objects in the image of 5 x 4, normalised.
C18_Witness ==
    /\ calls # <<>>
    /\ calls[1].op = "append" /\ input.stage = "tfrecord" /\ calls[1].err = None
    /\ variant = "cv"
    /\ packager.normalise_bounding_boxes
    /\ input.ia.image_width = 5
    /\ Len(packager.records) = 1
    /\ Len(packager.records[1].xmin) = 2

\* The stored values are the decimals given in hundredths.
Decimals(list, hundredths) ==
    /\ Len(list) = Len(hundredths)
    /\ \A k \in DOMAIN list : TimesIs(list[k], 100, hundredths[k])

\* The structured-box parser over the one image of 100 x 50, its listeners the
\* label collector and then the image loader, the loader's listener the
\* serialized-record packager with the collector and normalisation on, has
\* been started once and the start completed.
EndToEnd ==
    /\ parser.class = "CvatAnnotationFileParser"
    /\ annotation_file = <<FishAndCoral>>
    /\ parser.annotation_listeners = <<"collector", "loader">>
    /\ annotated_image_listeners["loader"] = <<"tfrecord">>
    /\ packager.label_collector /\ packager.normalise_bounding_boxes
    /\ Len(calls) = 1 /\ calls[1].op = "start" /\ calls[1].err = None
    /\ "parser" \in Range(pipeline_state_listeners)

\* C19: the image of width 100 and height 50 with boxes fish (10, 20, 5, 15)
\* and coral (50, 90, 10, 40), run through the structured-box parser, the label
\* collector, the image loader and the normalising serialized-record packager,
\* yields one record with xmin = [0.10, 0.50], xmax = [0.20, 0.90],
\* ymin = [0.10, 0.20], ymax = [0.30, 0.80], texts [fish, coral], ids [1, 2].
C19_EndToEnd ==
    EndToEnd =>
        /\ Len(packager.records) = 1
        /\ LET record == packager.records[1]
           IN /\ Decimals(record.xmin, <<10, 50>>)
              /\ Decimals(record.xmax, <<20, 90>>)
              /\ Decimals(record.ymin, <<10, 20>>)
              /\ Decimals(record.ymax, <<30, 80>>)
              /\ record.text = <<"fish", "coral">>
              /\ record.label = <<1, 2>>

\* C19's case: the run has happened and has written a record.
C19_Witness == EndToEnd /\ packager.records # <<>>

\* C20: in a parse that ends without error, every ImageAnnotation handed to a
\* listener has a width and a height greater than 0.
C20_PositiveDimensions ==
    \A c \in DOMAIN calls :
        calls[c].err = None =>
            \A d \in DOMAIN Deliveries(calls[c]) :
                /\ Deliveries(calls[c])[d].ia.image_width > 0
                /\ Deliveries(calls[c])[d].ia.image_height > 0

(***************************************************************************)
(* ImageAnnotation's constructor on its own, over short paths.             *)
(***************************************************************************)

MaxPathLen == 5

\* The characters the paths are made of.
PathChars == {"a", "/", ".", "p", "n", "g"}

\* An image_filename not yet handed to the constructor.
InitFormat ==
    /\ variant = "cv"
    /\ unique_labels = EmptyDict
    /\ registered = <<>>
    /\ given = {}
    /\ last_call = [op |-> "init", arg |-> <<>>, result |-> None]
    /\ parser = NoParser
    /\ annotation_file = <<>>
    /\ annotated_image_listeners = NoListeners
    /\ pipeline_state_listeners = <<>>
    /\ crop_patch = NoCropPatch
    /\ input \in {[stage |-> "none", image_filename |-> p, image_width |-> 4,
                   image_height |-> h] :
                     p \in SeqsUpTo(PathChars, MaxPathLen), h \in {3, 4}}
    /\ packager = NoPackager
    /\ files = <<>>
    /\ calls = <<>>

\* ImageAnnotation(image_filename, image_width, image_height)
Construct ==
    /\ last_call.op = "init"
    /\ last_call' = [op |-> "ImageAnnotation",
                     arg |-> input.image_filename,
                     result |-> Some(ImageAnnotation(input.image_filename,
                                                     input.image_width,
                                                     input.image_height))]
    /\ UNCHANGED <<variant, unique_labels, registered, given, wiringVars,
                   outputVars, calls>>

NextFormat == Construct

SpecFormat == InitFormat /\ [][NextFormat]_vars

\* C21: the format of an ImageAnnotation is png exactly if its path ends in
\* ".png", the dot included, and jpg for every other path.
C21_FormatFromExtension ==
    last_call.op = "ImageAnnotation" =>
        LET image_annotation == last_call.result[1]
        IN image_annotation.image_format =
               IF EndsWith(last_call.arg, <<".", "p", "n", "g">>) THEN "png" ELSE "jpg"

\* The labels of the records of the annotation file.
FileLabels ==
    IF parser.class = "CvatAnnotationFileParser"
    THEN UNION {{annotation_file[r].boxes[k].label :
                    k \in DOMAIN annotation_file[r].boxes} :
                   r \in DOMAIN annotation_file}
    ELSE {annotation_file[r].label : r \in DOMAIN annotation_file}

\* C22: a legacy parser that was given a registry clears it at the start of
\* parse: after the parse, whatever the registry held before, it holds only
\* labels of that file, numbered densely from 1, and none if the parse
\* registered none (count 0, find not-found for every label).
C22_ParseStartsFromEmptyRegistry ==
    \A c \in DOMAIN calls :
        (variant = "legacy" /\ parser.label_collector) =>
            /\ DOMAIN unique_labels \subseteq FileLabels
            /\ Range(unique_labels) = 1..Cardinality(DOMAIN unique_labels)
            /\ FileLabels = {} =>
                   /\ legacy_get_num(unique_labels).result = Some(0)
                   /\ \A label \in Labels \cup {"urchin"} :
                          legacy_find(unique_labels, label).result = None

\* C22's case: a registry holding urchin = 1 and fish = 2 was given to a parser
\* whose file names fish only; after the parse fish = 1 and urchin is gone.
C22_Witness ==
    /\ variant = "legacy" /\ parser.label_collector
    /\ registered = <<"urchin", "fish">>
    /\ calls # <<>>
    /\ calls[1].err = None
    /\ unique_labels = register(EmptyDict, "fish").self

\* C23: an error raised while start() runs propagates out of start(): the log
\* of the call ends with the raise out of the listener's on_pipeline_start,
\* nothing is entered after the first raise (no later listener is started, no
\* further unit is delivered), start() delivers no on_pipeline_stop, and every
\* stop() called afterwards notifies every listener and returns, which leaves
\* the record writer closed when the packager is a listener.
C23_ErrorsPropagate ==
    \A c \in DOMAIN calls :
        LET call == calls[c]
            log == call.log
        IN (call.op = "start" /\ \E i \in DOMAIN log : log[i].ev = "raise") =>
               /\ call.err # None
               /\ log[Len(log)].ev = "raise" /\ log[Len(log)].depth = 0
               /\ \A i, j \in DOMAIN log :
                      (i < j /\ log[i].ev = "raise") => log[j].ev = "raise"
               /\ Len(Notifications(call)) <= Len(pipeline_state_listeners)
               /\ \A k \in DOMAIN Notifications(call) :
                      Notifications(call)[k].comp = pipeline_state_listeners[k]
               /\ \A i \in DOMAIN log : log[i].method # "on_pipeline_stop"
               /\ \A d \in DOMAIN calls :
                      (d > c /\ calls[d].op = "stop") =>
                          /\ calls[d].err = None
                          /\ [k \in DOMAIN Notifications(calls[d]) |->
                                 Notifications(calls[d])[k].comp] =
                             pipeline_state_listeners
                          /\ "tfrecord" \in Range(pipeline_state_listeners) =>
                                 packager.closed > 0

\* C23's case: the parser, registered before the packager, delivered a unit and
\* then raised; the packager was not started, and the stop() that followed
\* closed its writer.
C23_Witness ==
    /\ Len(calls) >= 2
    /\ pipeline_state_listeners = <<"parser", "tfrecord">>
    /\ calls[1].op = "start" /\ calls[1].err # None
    /\ \E e \in Range(calls[1].log) : e.ev = "exit" /\ e.depth = 1
    /\ Len(Notifications(calls[1])) = 1
    /\ calls[2].op = "stop" /\ calls[2].err = None
    /\ packager.closed = 1

\* The calls, by number, that notified the listener with the method.
NotifiedIn(comp, method) ==
    {c \in DOMAIN calls :
        \E e \in Range(Notifications(calls[c])) : e.comp = comp /\ e.method = method}

\* C24: over any sequence of start() and stop() calls each listener receives
\* on_pipeline_start at most once and on_pipeline_stop at most once, and no
\* on_pipeline_stop before its on_pipeline_start; the writer of the packager is
\* closed at most once.
C24_LifecycleOnlyForward ==
    /\ \A comp \in Range(pipeline_state_listeners) :
          /\ Cardinality(NotifiedIn(comp, "on_pipeline_start")) <= 1
          /\ Cardinality(NotifiedIn(comp, "on_pipeline_stop")) <= 1
          /\ \A c \in NotifiedIn(comp, "on_pipeline_stop") :
                 \E b \in NotifiedIn(comp, "on_pipeline_start") : b < c
    /\ packager.closed <= 1

\* C25: after a parse of the legacy point-record parser that was given a
\* registry, the registry holds a label only if the parse handed an
\* ObjectAnnotation with that label to a listener.
C25_OnlyEmittedLabelsRegistered ==
    \A c \in DOMAIN calls :
        (/\ variant = "legacy"
         /\ parser.class = "CatlinSeaviewSurveyCsvAnnotationFileParser"
         /\ parser.label_collector
         /\ calls[c].err = None) =>
            DOMAIN unique_labels \subseteq
                {oa.label : oa \in ObjectsDelivered(calls[c])}

\* The rectangle stated for an object: its box enlarged by half a patch on
\* each side.
EnlargedBox(oa) ==
    [min_x |-> oa.xmin - (crop_patch.image_patch_width \div 2),
     max_x |-> oa.xmax + (crop_patch.image_patch_width \div 2),
     min_y |-> oa.ymin - (crop_patch.image_patch_height \div 2),
     max_y |-> oa.ymax + (crop_patch.image_patch_height \div 2)]

\* The rectangle lies strictly inside the image.
StrictlyInside(box, ia) ==
    /\ 0 < box.min_x /\ box.max_x < ia.image_width
    /\ 0 < box.min_y /\ box.max_y < ia.image_height

\* C28: every rectangle the legacy crop stage cuts out is the object's box
\* enlarged by half a patch on each side, contains the object's box and lies
\* strictly inside the image; an object whose enlarged box does not lie
\* strictly inside the image is skipped.
C28_CropRectangle ==
    \A c \in DOMAIN calls :
        (variant = "legacy" /\ calls[c].op = "process" /\ input.stage = "crop") =>
            \A k \in DOMAIN calls[c].cropped :
                LET crop == calls[c].cropped[k]
                    oa == crop.object_annotation
                    box == [min_x |-> crop.min_x, max_x |-> crop.max_x,
                            min_y |-> crop.min_y, max_y |-> crop.max_y]
                IN /\ box = EnlargedBox(oa)
                   /\ box.min_x <= oa.xmin /\ oa.xmax <= box.max_x
                   /\ box.min_y <= oa.ymin /\ oa.ymax <= box.max_y
                   /\ StrictlyInside(box, input.ia)

(***************************************************************************)
(* SpecLegacy: a legacy parser with a registry, ImageLoader.load as its     *)
(* listener and TensorFlowRecordDatasetPackager.append as the loader's.     *)
(***************************************************************************)

InitLegacy ==
    /\ variant = "legacy"
    /\ unique_labels \in {EmptyDict, UsedRegistry}
    /\ registered = <<>>
    /\ given = {}
    /\ last_call = [op |-> "init", arg |-> <<>>, result |-> None]
    /\ annotated_image_listeners = ("loader" :> <<>>) @@ ("load" :> <<"tfrecord">>)
    /\ pipeline_state_listeners = <<>>
    /\ packager \in {TensorFlowRecordDatasetPackager(FALSE, n) : n \in BOOLEAN}
    /\ crop_patch = NoCropPatch
    /\ input = NoInput
    /\ files = <<>>
    /\ calls = <<>>
    /\ \/ /\ parser \in {CvatParser(<<"load">>, c) : c \in BOOLEAN}
          /\ annotation_file \in SeqsUpTo(PipelineImageNodes, MaxUnits)
       \/ /\ parser \in {CsvParser(<<"load">>, h, h, None, c) :
                            h \in {0, 2}, c \in BOOLEAN}
          /\ annotation_file \in SeqsUpTo(PipelineRows, MaxUnits)

SpecLegacy == InitLegacy /\ [][NextParse]_vars

C27_FormatErrorBeforeAnyUnit ==
    \A c \in DOMAIN calls :
        /\ (\E r \in DOMAIN annotation_file :
               /\ Considered(annotation_file[r])
               /\ <<>> \in {annotation_file[r].x, annotation_file[r].y})
           => calls[c].err = Some("ValueError")
        /\ calls[c].err = Some("ValueError") =>
               /\ calls[c].log = <<>>
               /\ calls[c].opened = <<>>

\* C27's case: the first row would have given a unit, the second has an x that
\* is no number; the parse ended with ValueError and nothing was delivered.
C27_Witness ==
    /\ variant = "cv"
    /\ Len(annotation_file) = 2
    /\ annotation_file[1] = CsvRow(<<"a">>, 2, 2, "fish", "train")
    /\ annotation_file[2].x = <<>> /\ Considered(annotation_file[2])
    /\ calls # <<>>
    /\ calls[1].err = Some("ValueError")
    /\ calls[1].log = <<>>

====
